---- MODULE Spec2Model ----
(***************************************************************************)
(* A model of the coffer class-file codec: the descriptor parser and       *)
(* emitter (Type), the MethodHandle checks, and Class::read_from /         *)
(* Class::write_to with the writer constant pool.                          *)
(***************************************************************************)
EXTENDS Integers, Sequences, FiniteSets, TLC

VARIABLES
    ty,     \* the descriptor machine: input string, parse result, emitted text
    mh,     \* the MethodHandle machine: the handle, the operation, its result
    utf,    \* the modified UTF-8 machine: the text, the bytes, the result
    pc,     \* where the class pipeline is: reading, the steps of write_to, done
    cls,    \* the Class value being written (self in Class::write_to)
    writer, \* the bytes written to the output so far
    cp,     \* the writer pool (VecCp): entries, pending bootstrap methods
    buf,    \* the scratch buffer of the class body
    buf2,   \* the scratch buffer of the bootstrap method entries
    bsm,    \* the local list collected from the BootstrapMethods attributes
    i,      \* the u16 count of bootstrap methods taken from the pool
    v,      \* the batch of pending bootstrap methods being written
    ai,     \* the position of the attribute loop in self.attributes
    io,     \* input bytes, first read result, first output, second read result
    hist    \* history: what was appended and inserted, in order

wvars == <<cls, writer, cp, buf, buf2, bsm, i, v, ai>>

pipe == <<pc, cls, writer, cp, buf, buf2, bsm, i, v, ai, io, hist>>

vars == <<ty, mh, utf, pc, cls, writer, cp, buf, buf2, bsm, i, v, ai, io, hist>>

(***************************************************************************)
(* Bounds of the model.                                                    *)
(***************************************************************************)
\* longest descriptor string drawn exhaustively from TypeAlphabet
MaxLen == 4
\* most invokedynamic call sites in the method of a class
MaxIndy == 2
\* deepest nesting of bootstrap methods through Dynamic arguments
MaxBsmDepth == 1
\* longest class attribute list
MaxAttrs == 2
\* inserts into one pool
MaxOps == 3
\* longest text drawn exhaustively from CodePoints
MaxText == 2
\* longest byte sequence drawn exhaustively from ByteAlphabet
MaxBytes == 3

(***************************************************************************)
(* Program constants.                                                      *)
(***************************************************************************)
\* the largest value of the u8 dimension counter of Type::ArrayRef
U8Max == 255

(***************************************************************************)
(* Generic helpers.                                                        *)
(***************************************************************************)
SeqsUpTo(S, n) == UNION {[1..m -> S] : m \in 0..n}

Repeat(ch, n) == [j \in 1..n |-> ch]

\* Val({e : x \in {d}}) is e with x bound to the value of d: d is evaluated
\* once, as a let binding of the source is
Val(S) == CHOOSE r \in S : TRUE

(***************************************************************************)
(* Type: the descriptor grammar (full/mod.rs).  A string is a sequence of  *)
(* one-character strings.                                                  *)
(***************************************************************************)
PrimOf(ch) ==
    CASE ch = "B" -> "Byte"   [] ch = "C" -> "Char"  [] ch = "D" -> "Double"
      [] ch = "F" -> "Float"  [] ch = "I" -> "Int"   [] ch = "J" -> "Long"
      [] ch = "Z" -> "Boolean" [] ch = "S" -> "Short"

PrimChars == {"B", "C", "D", "F", "I", "J", "Z", "S"}

CharOf(k) ==
    CASE k = "Byte" -> "B"    [] k = "Char" -> "C"   [] k = "Double" -> "D"
      [] k = "Float" -> "F"   [] k = "Int" -> "I"    [] k = "Long" -> "J"
      [] k = "Boolean" -> "Z" [] k = "Short" -> "S"

TPrim(k) == [k |-> k]
TRef(name) == [k |-> "Ref", name |-> name]
TArrayRef(dim, t) == [k |-> "ArrayRef", dim |-> dim, elem |-> t]
\* ret is <<>> for None and <<t>> for Some(t)
TMethod(params, ret) == [k |-> "Method", params |-> params, ret |-> ret]

TOk(t, pos) == [ok |-> TRUE, t |-> t, pos |-> pos]
TErr(e) == [ok |-> FALSE, err |-> e]

\* c.as_str().chars().next().unwrap_or(')')
PeekOrParen(s, pos) == IF pos <= Len(s) THEN s[pos] ELSE ")"

\* the terminator the 'L' arm scans for
RefTerminator == ")"

RECURSIVE RefLoop(_, _, _)
\* while c.as_str().chars().next().unwrap_or(')') != ')' { st.push(c.next().unwrap()) }
RefLoop(s, pos, st) ==
    IF pos <= Len(s) /\ s[pos] # RefTerminator
    THEN RefLoop(s, pos + 1, Append(st, s[pos]))
    ELSE [name |-> st, pos |-> pos]

\* dim.checked_add(1): None above the u8 range
CheckedAdd(dim) ==
    IF dim + 1 > U8Max THEN [ok |-> FALSE, v |-> 0] ELSE [ok |-> TRUE, v |-> dim + 1]

\* the number of consecutive '[' from pos on
BracketRun(s, pos) ==
    LET stops == {j \in pos..(Len(s) + 1) : j > Len(s) \/ s[j] # "["}
    IN  (CHOOSE j \in stops : \A m \in stops : j <= m) - pos

RECURSIVE AddTimes(_, _)
\* n successive "dim = dim.checked_add(1)?", split in halves to keep the
\* evaluation shallow; the first failure ends the sequence
AddTimes(dim, n) ==
    IF n = 0 THEN [ok |-> TRUE, v |-> dim]
    ELSE IF n = 1 THEN CheckedAdd(dim)
    ELSE LET h == n \div 2
             a == AddTimes(dim, h)
         IN  IF a.ok THEN AddTimes(a.v, n - h) ELSE a

\* while let Some('[') = c.as_str().chars().next() { c.next(); dim = dim.checked_add(1)? }
DimLoop(s, pos, dim) ==
    LET n == BracketRun(s, pos)
        a == AddTimes(dim, n)
    IN  [ok |-> a.ok, dim |-> a.v, pos |-> pos + n]

RECURSIVE get_type(_, _)
RECURSIVE ParamLoop(_, _, _)

\* while c.as_str().chars().next().unwrap_or(')') != ')' { types.push(get_type(c, st)?) }
ParamLoop(s, pos, types) ==
    IF PeekOrParen(s, pos) # ")"
    THEN LET r == get_type(s, pos)
         IN  IF r.ok THEN ParamLoop(s, r.pos, Append(types, r.t))
             ELSE [ok |-> FALSE, err |-> r.err]
    ELSE [ok |-> TRUE, types |-> types, pos |-> pos]

get_type(s, pos) ==
    IF pos > Len(s) THEN TErr("UnexpectedEnd")
    ELSE LET ch == s[pos] IN
      CASE ch \in PrimChars -> TOk(TPrim(PrimOf(ch)), pos + 1)
        [] ch = "L" ->
             LET l == RefLoop(s, pos + 1, <<>>)
             IN  IF l.pos > Len(s) THEN TErr("UnexpectedEnd")
                 ELSE TOk(TRef(l.name), l.pos + 1)
        [] ch = "[" ->
             LET d == DimLoop(s, pos + 1, 1)
             IN  IF ~d.ok THEN TErr("ArithmeticOverflow")
                 ELSE LET r == get_type(s, d.pos)
                      IN  IF r.ok THEN TOk(TArrayRef(d.dim, r.t), r.pos) ELSE r
        [] ch = "(" ->
             LET p == ParamLoop(s, pos + 1, <<>>)
             IN  IF ~p.ok THEN TErr(p.err)
                 ELSE IF p.pos > Len(s) THEN TErr("UnexpectedEnd")
                 ELSE IF p.pos + 1 <= Len(s) /\ s[p.pos + 1] = "V"
                      THEN TOk(TMethod(p.types, <<>>), p.pos + 1)
                      ELSE LET r == get_type(s, p.pos + 1)
                           IN  IF r.ok THEN TOk(TMethod(p.types, <<r.t>>), r.pos)
                               ELSE r
        [] OTHER -> TErr("Invalid")

\* Type::from_str: the characters left after the first descriptor are not looked at
from_str(s) == get_type(s, 1)

RECURSIVE fmt(_)
RECURSIVE FmtAll(_)
FmtAll(ts) == IF ts = <<>> THEN <<>> ELSE fmt(Head(ts)) \o FmtAll(Tail(ts))

\* impl Display for Type
fmt(t) ==
    CASE t.k = "Ref" -> <<"L">> \o t.name \o <<";">>
      [] t.k = "ArrayRef" -> Repeat("[", t.dim) \o fmt(t.elem)
      [] t.k = "Method" ->
           <<"(">> \o FmtAll(t.params) \o <<")">>
              \o (IF t.ret = <<>> THEN <<"V">> ELSE fmt(t.ret[1]))
      [] OTHER -> <<CharOf(t.k)>>

(***************************************************************************)
(* The descriptor strings the parser is run on.                            *)
(***************************************************************************)
TypeAlphabet == {"I", "D", "L", "a", ";", "[", "(", ")", "V"}

DescMethodExample ==
    <<"(", "I", "J", "L", "j", "a", "v", "a", "/", "l", "a", "n", "g", "/",
      "S", "t", "r", "i", "n", "g", ";", ")", "[", "D">>

DescObjectExample ==
    <<"L", "j", "a", "v", "a", "/", "l", "a", "n", "g", "/",
      "O", "b", "j", "e", "c", "t", ";">>

NameString == <<"j", "a", "v", "a", "/", "l", "a", "n", "g", "/", "S", "t", "r", "i", "n", "g">>
NameObject == <<"j", "a", "v", "a", "/", "l", "a", "n", "g", "/", "O", "b", "j", "e", "c", "t">>

\* the array depths around the u8 limit
DimCases == {1, 2, 3, U8Max - 1, U8Max, U8Max + 1, U8Max + 2}

ElemCases == {<<"I">>, <<"D">>, <<"Z">>, <<"L", "a", ";">>}

ArrayInputs == {Repeat("[", k) \o e : k \in DimCases, e \in ElemCases}

\* a Method as array element, as parameter and as return type
NestedMethodInputs ==
    {<<"[", "(", "I", ")", "V">>,
     <<"(", "(", "I", ")", "V", ")", "V">>,
     <<"(", "(", "I", ")", "I", ")", "V">>,
     <<"(", ")", "(", "I", ")", "I">>}

\* a complete descriptor followed by more characters, and 'V' out of place
TrailingInputs ==
    {<<"I", "I">>, <<"I", "f", "o", "o">>, <<"(", "I", ")", "V", "V">>,
     <<"(", "I", ")", "I", "I">>, <<"V">>, <<"[", "V">>, <<"(", "V", ")", "V">>}

TypeInputs ==
    SeqsUpTo(TypeAlphabet, MaxLen) \cup {DescMethodExample, DescObjectExample}
        \cup ArrayInputs \cup NestedMethodInputs \cup TrailingInputs

(***************************************************************************)
(* MethodHandle (full/mod.rs): check, read_from, write_to.                 *)
(***************************************************************************)
FieldKinds == {"GetField", "GetStatic", "PutField", "PutStatic"}

InvokeKinds == {"InvokeVirtual", "InvokeStatic", "InvokeSpecial", "InvokeInterface"}

MethodHandleKind == FieldKinds \cup InvokeKinds \cup {"NewInvokeSpecial"}

NameInit == <<"<", "i", "n", "i", "t", ">">>
NameClinit == <<"<", "c", "l", "i", "n", "i", "t", ">">>
NameM == <<"m">>

MemberRef(owner, name, descriptor, itfs) ==
    [owner |-> owner, name |-> name, descriptor |-> descriptor, itfs |-> itfs]

MethodHandle(kind, member) == [kind |-> kind, member |-> member]

ROk == [ok |-> TRUE, err |-> "none"]
RErr(e) == [ok |-> FALSE, err |-> e]

\* should_not_be_method!: a field kind whose descriptor is Type::Method(..)
should_not_be_method(h) ==
    IF h.kind \in FieldKinds /\ h.member.descriptor.k = "Method"
    THEN RErr("Invalid") ELSE ROk

\* should_be_method!: an invoke kind whose descriptor is not Type::Method(..)
should_be_method(h) ==
    IF h.kind \in InvokeKinds \cup {"NewInvokeSpecial"} /\ h.member.descriptor.k # "Method"
    THEN RErr("Invalid") ELSE ROk

\* MethodHandle::check
check(h) ==
    IF ~should_not_be_method(h).ok THEN should_not_be_method(h)
    ELSE should_be_method(h)

\* MethodHandle::read_from: kind and member are read, then res.check()?
MethodHandle_read_from(h) == check(h)

\* fn not_init inside MethodHandle::write_to
not_init(h) ==
    IF h.member.name = NameInit \/ h.member.name = NameClinit
    THEN RErr("Invalid") ELSE ROk

\* MethodHandle::write_to: the kind is written first, then the member unless
\* the name test of the kind fails
MethodHandle_write_to(h) ==
    LET r == CASE h.kind \in FieldKinds -> ROk
               [] h.kind \in InvokeKinds -> not_init(h)
               [] OTHER -> IF h.member.name # NameInit THEN RErr("Invalid") ELSE ROk
    IN  [res |-> r, wrote |-> IF r.ok THEN <<"kind", "member">> ELSE <<"kind">>]

(***************************************************************************)
(* Bytes: big-endian integers and the one-byte range of modified UTF-8.    *)
(***************************************************************************)
U8(n) == <<n % 256>>
U16(n) == <<(n \div 256) % 256, n % 256>>
U32(n) == <<(n \div 16777216) % 256, (n \div 65536) % 256, (n \div 256) % 256, n % 256>>

RdU8(b, pos) == b[pos]
RdU16(b, pos) == b[pos] * 256 + b[pos + 1]
RdU32(b, pos) == ((b[pos] * 256 + b[pos + 1]) * 256 + b[pos + 2]) * 256 + b[pos + 3]

RECURSIVE Concat(_)
Concat(ss) ==
    IF Len(ss) = 0 THEN <<>>
    ELSE IF Len(ss) = 1 THEN ss[1]
    ELSE LET h == Len(ss) \div 2
         IN  Concat(SubSeq(ss, 1, h)) \o Concat(SubSeq(ss, h + 1, Len(ss)))

\* the characters U+0020..U+007E, in code point order (the quote, the
\* backslash and the backtick by name)
Ascii ==
    <<
      " ", "!", "QUOTE", "#", "$", "%", "&", "'", "(", ")", "*", "+",
      ",", "-", ".", "/", "0", "1", "2", "3", "4", "5", "6", "7",
      "8", "9", ":", ";", "<", "=", ">", "?", "@", "A", "B", "C",
      "D", "E", "F", "G", "H", "I", "J", "K", "L", "M", "N", "O",
      "P", "Q", "R", "S", "T", "U", "V", "W", "X", "Y", "Z", "[",
      "BACKSLASH", "]", "^", "_", "BACKTICK", "a", "b", "c", "d", "e", "f", "g",
      "h", "i", "j", "k", "l", "m", "n", "o", "p", "q", "r", "s",
      "t", "u", "v", "w", "x", "y", "z", "{", "|", "}", "~"
    >>

CharCode(ch) == 31 + (CHOOSE j \in 1..Len(Ascii) : Ascii[j] = ch)

\* string_to_modified_utf8 on U+0001..U+007F: one byte per character
Mutf8(str) == [j \in 1..Len(str) |-> CharCode(str[j])]

IsAsciiByte(c) == c >= 32 /\ c <= 126

\* modified_utf8_to_string on one-byte sequences
Mutf8Decode(bytes) == [j \in 1..Len(bytes) |-> Ascii[bytes[j] - 31]]

Str(t) == [j \in 1..Len(t) |-> t[j]]

(***************************************************************************)
(* The modified UTF-8 codec.  A text is a sequence of Unicode scalar       *)
(* values (code points other than surrogates), as a str holds.             *)
(***************************************************************************)
\* the three-byte form 1110xxxx 10xxxxxx 10xxxxxx
ThreeBytes(c) == <<224 + (c \div 4096), 128 + ((c \div 64) % 64), 128 + (c % 64)>>

HighSurrogate(c) == 55296 + ((c - 65536) \div 1024)
LowSurrogate(c) == 56320 + ((c - 65536) % 1024)

\* standard UTF-8: NUL as one byte 00, a supplementary code point as four
\* bytes
StandardUtf8(c) ==
    IF c <= 127 THEN <<c>>
    ELSE IF c <= 2047 THEN <<192 + (c \div 64), 128 + (c % 64)>>
    ELSE IF c <= 65535 THEN ThreeBytes(c)
    ELSE <<240 + (c \div 262144), 128 + ((c \div 4096) % 64),
           128 + ((c \div 64) % 64), 128 + (c % 64)>>

\* one code point in modified UTF-8
encode_code_point(c) ==
    IF c = 0 THEN <<192, 128>>
    ELSE IF c <= 127 THEN <<c>>
    ELSE IF c <= 2047 THEN <<192 + (c \div 64), 128 + (c % 64)>>
    ELSE IF c <= 65535 THEN ThreeBytes(c)
    ELSE ThreeBytes(HighSurrogate(c)) \o ThreeBytes(LowSurrogate(c))

string_to_modified_utf8(str) ==
    Concat([j \in 1..Len(str) |-> encode_code_point(str[j])])

IsCont(b, pos) == pos <= Len(b) /\ b[pos] >= 128 /\ b[pos] <= 191

\* the value of the three-byte form at pos
ThreeValue(b, pos) ==
    (b[pos] - 224) * 4096 + (b[pos + 1] - 128) * 64 + (b[pos + 2] - 128)

IsThree(b, pos) ==
    /\ pos <= Len(b) /\ b[pos] >= 224 /\ b[pos] <= 239
    /\ IsCont(b, pos + 1) /\ IsCont(b, pos + 2)

DOk(c, len) == [ok |-> TRUE, c |-> c, len |-> len]
DErr == [ok |-> FALSE, c |-> 0, len |-> 0]

\* decode_at with overlong forms and lone surrogates let through
DecodeAtLenient(b, pos) ==
    IF b[pos] <= 127 THEN DOk(b[pos], 1)
    ELSE IF b[pos] >= 192 /\ b[pos] <= 223 /\ IsCont(b, pos + 1)
    THEN DOk((b[pos] - 192) * 64 + (b[pos + 1] - 128), 2)
    ELSE IF IsThree(b, pos) THEN DOk(ThreeValue(b, pos), 3)
    ELSE DErr

\* the code point that starts at pos and the bytes it takes; strict: no
\* byte 00, no overlong form but C0 80, a high surrogate only with the low
\* surrogate right after it, no lead byte of a longer form
decode_at(b, pos) ==
    IF b[pos] >= 1 /\ b[pos] <= 127 THEN DOk(b[pos], 1)
    ELSE IF b[pos] >= 192 /\ b[pos] <= 223
    THEN IF ~IsCont(b, pos + 1) THEN DErr
         ELSE IF b[pos] = 192 /\ b[pos + 1] = 128 THEN DOk(0, 2)
         ELSE IF (b[pos] - 192) * 64 + (b[pos + 1] - 128) < 128 THEN DErr
         ELSE DOk((b[pos] - 192) * 64 + (b[pos + 1] - 128), 2)
    ELSE IF IsThree(b, pos)
    THEN IF ThreeValue(b, pos) < 2048 THEN DErr
         ELSE IF ThreeValue(b, pos) >= 55296 /\ ThreeValue(b, pos) <= 56319
         THEN IF IsThree(b, pos + 3)
                 /\ ThreeValue(b, pos + 3) >= 56320 /\ ThreeValue(b, pos + 3) <= 57343
              THEN DOk(65536 + (ThreeValue(b, pos) - 55296) * 1024
                          + (ThreeValue(b, pos + 3) - 56320), 6)
              ELSE DErr
         ELSE IF ThreeValue(b, pos) >= 56320 /\ ThreeValue(b, pos) <= 57343 THEN DErr
         ELSE DOk(ThreeValue(b, pos), 3)
    ELSE DErr

RECURSIVE DecodeFrom(_, _, _)
DecodeFrom(b, pos, acc) ==
    IF pos > Len(b) THEN [ok |-> TRUE, val |-> acc]
    ELSE Val({IF ~d.ok THEN [ok |-> FALSE, val |-> <<>>]
              ELSE DecodeFrom(b, pos + d.len, Append(acc, d.c))
            : d \in {decode_at(b, pos)}})

modified_utf8_to_string(b) == DecodeFrom(b, 1, <<>>)

\* code points at the borders of the ranges, and those of the tests
CodePoints ==
    {0, 1, 65, 127, 128, 937, 2047, 2048, 55295, 57344, 65332, 65535,
     65536, 128512, 1114111}

TextAbcde == <<97, 98, 99, 100, 101>>

TextInputs == SeqsUpTo(CodePoints, MaxText) \cup {TextAbcde}

ByteAlphabet == {0, 65, 127, 128, 191, 192, 193, 206, 223, 224, 237, 240}

\* U+1F600 and U+10000 as surrogate pairs, a high surrogate alone and
\* before a letter, a pair in the wrong order, standard four-byte forms
ByteExamples ==
    {<<237, 160, 189, 237, 184, 128>>, <<237, 160, 128, 237, 176, 128>>,
     <<237, 160, 189>>, <<237, 160, 189, 65>>, <<237, 184, 128, 237, 160, 189>>,
     <<240, 159, 152, 128>>, <<244, 143, 191, 191>>,
     <<239, 188, 180>>, <<206, 169>>, <<192, 128>>}

ByteInputs == SeqsUpTo(ByteAlphabet, MaxBytes) \cup ByteExamples

UtfIdle == [pc |-> "idle", s |-> <<>>, b |-> <<>>, res |-> [ok |-> FALSE, val |-> <<>>],
            b2 |-> <<>>]

UtfInit ==
    utf \in {[UtfIdle EXCEPT !.pc = "encode", !.s = str] : str \in TextInputs}
           \cup {[UtfIdle EXCEPT !.pc = "decode", !.b = b] : b \in ByteInputs}

\* string_to_modified_utf8(s)
UtfEncode ==
    /\ utf.pc = "encode"
    /\ utf' = [utf EXCEPT !.pc = "encoded", !.b = string_to_modified_utf8(utf.s)]
    /\ UNCHANGED <<ty, mh, pipe>>

\* modified_utf8_to_string of what was encoded
UtfDecodeBack ==
    /\ utf.pc = "encoded"
    /\ utf' = [utf EXCEPT !.pc = "round_trip", !.res = modified_utf8_to_string(utf.b)]
    /\ UNCHANGED <<ty, mh, pipe>>

\* modified_utf8_to_string(b)
UtfDecode ==
    /\ utf.pc = "decode"
    /\ utf' = [utf EXCEPT !.pc = "decoded", !.res = modified_utf8_to_string(utf.b)]
    /\ UNCHANGED <<ty, mh, pipe>>

\* string_to_modified_utf8 of what was decoded
UtfEncodeBack ==
    /\ utf.pc = "decoded"
    /\ utf.res.ok
    /\ utf' = [utf EXCEPT !.pc = "re_encoded", !.b2 = string_to_modified_utf8(utf.res.val)]
    /\ UNCHANGED <<ty, mh, pipe>>

(***************************************************************************)
(* The writer pool (VecCp): a vector of entries with dedup on insert, the  *)
(* bootstrap methods handed out so far and the pending ones.               *)
(***************************************************************************)
VecCpNew == [entries |-> <<>>, bsm |-> <<>>, bsmAll |-> <<>>]

Ins(c, idx) == [cp |-> c, idx |-> idx]

\* the placeholder in the slot after a Long or a Double
Phantom == [tag |-> "Phantom"]

IsWide(e) == e.tag \in {"Long", "Double"}

\* InsertValue with no lookup: every insert appends
InsertValueNoDedup(c, e) ==
    Ins([c EXCEPT !.entries = IF IsWide(e) THEN @ \o <<e, Phantom>> ELSE Append(@, e)],
        Len(c.entries) + 1)

\* hash-lookup; on miss append, with a placeholder after a Long or a
\* Double: the index is the 1-based slot
InsertValue(c, e) ==
    IF \E j \in 1..Len(c.entries) : c.entries[j] = e
    THEN Ins(c, CHOOSE j \in 1..Len(c.entries) : c.entries[j] = e)
    ELSE Ins([c EXCEPT !.entries = IF IsWide(e) THEN @ \o <<e, Phantom>> ELSE Append(@, e)],
             Len(c.entries) + 1)

InsertEntry(c, e) == Val({InsertValue(p[1], p[2])
                       : p \in {<<c, e>>}})

insert_utf8(c, str) == InsertEntry(c, [tag |-> "Utf8", s |-> str])

insert_class(c, name) ==
    Val({
        InsertEntry(u.cp, [tag |-> "Class", name |-> u.idx])
      : u \in {insert_utf8(c, name)}})

insert_name_and_type(c, name, desc) ==
    Val({
    Val({
        InsertEntry(d.cp, [tag |-> "NameAndType", name |-> n.idx, desc |-> d.idx])
      : d \in {insert_utf8(n.cp, desc)}})
      : n \in {insert_utf8(c, name)}})

MemberTag(m) ==
    IF m.descriptor.k # "Method" THEN "Fieldref"
    ELSE IF m.itfs THEN "InterfaceMethodref" ELSE "Methodref"

insert_member(c, m) ==
    Val({
    Val({
        InsertEntry(n.cp, [tag |-> MemberTag(m), class |-> o.idx, nat |-> n.idx])
      : n \in {insert_name_and_type(o.cp, m.name, fmt(m.descriptor))}})
      : o \in {insert_class(c, m.owner)}})

insert_method_handle(c, h) ==
    Val({
        InsertEntry(m.cp, [tag |-> "MethodHandle", kind |-> h.kind, ref |-> m.idx])
      : m \in {insert_member(c, h.member)}})

\* the 0-based index into the BootstrapMethods attribute; a new bootstrap
\* method joins the pending list
InsertBsmValue(c, b) ==
    IF \E j \in 1..Len(c.bsmAll) : c.bsmAll[j] = b
    THEN Ins(c, (CHOOSE j \in 1..Len(c.bsmAll) : c.bsmAll[j] = b) - 1)
    ELSE Ins([c EXCEPT !.bsm = Append(@, b), !.bsmAll = Append(@, b)], Len(c.bsmAll))

insert_bsm(c, b) == Val({InsertBsmValue(p[1], p[2])
                      : p \in {<<c, b>>}})

\* a bootstrap method that was read as an index and never completed
Unresolved(idx) == [unresolved |-> idx]

IsUnresolved(b) == "unresolved" \in DOMAIN b

\* an InvokeDynamic or Dynamic entry: the bootstrap method is interned first;
\* a reference never completed keeps the index it was read with
insert_dynamic(c, tag, d) ==
    Val({
    Val({
        InsertEntry(n.cp, [tag |-> tag, bsm |-> b.idx, nat |-> n.idx])
      : n \in {insert_name_and_type(b.cp, d.name, fmt(d.descriptor))}})
      : b \in {IF IsUnresolved(d.bsm) THEN Ins(c, d.bsm.unresolved) ELSE insert_bsm(c, d.bsm)}})

(***************************************************************************)
(* Constant (full/mod.rs).  A number is held as the bytes of its bit       *)
(* pattern, most significant first: 4 bytes for I32 and F32, 8 for I64 and *)
(* F64.                                                                    *)
(***************************************************************************)
CI32(bits) == [k |-> "I32", bits |-> bits]
CF32(bits) == [k |-> "F32", bits |-> bits]
CI64(bits) == [k |-> "I64", bits |-> bits]
CF64(bits) == [k |-> "F64", bits |-> bits]
CString(str) == [k |-> "String", s |-> str]
CClass(name) == [k |-> "Class", s |-> name]

\* f32 and f64 by their bits: sign 1, exponent 8 or 11, then the mantissa
ExpAllOnes(k, b) ==
    IF k = "F32" THEN b[1] % 128 = 127 /\ b[2] >= 128
    ELSE b[1] % 128 = 127 /\ b[2] >= 240

MantissaZero(k, b) ==
    /\ (IF k = "F32" THEN b[2] % 128 ELSE b[2] % 16) = 0
    /\ \A j \in 3..Len(b) : b[j] = 0

IsNaN(k, b) == ExpAllOnes(k, b) /\ ~MantissaZero(k, b)

IsZero(k, b) == b[1] % 128 = 0 /\ \A j \in 2..Len(b) : b[j] = 0

\* == of f32 and of f64: a NaN equals nothing, the two zeroes are equal
float_eq(k, a, b) ==
    /\ ~IsNaN(k, a)
    /\ ~IsNaN(k, b)
    /\ (a = b \/ (IsZero(k, a) /\ IsZero(k, b)))

\* #[derive(PartialEq)] for Constant: the same variant with equal fields,
\* each field by the == of its own type
Constant_eq(a, b) ==
    /\ a.k = b.k
    /\ IF a.k \in {"F32", "F64"} THEN float_eq(a.k, a.bits, b.bits)
       ELSE a = b

\* impl Hash for Constant: what is fed to the hasher, the discriminant and
\* then the fields, a float as to_bits()
Constant_hash(a) ==
    IF a.k \in {"I32", "F32", "I64", "F64"} THEN <<a.k, a.bits>> ELSE <<a.k, a.s>>

\* the pool entry of a constant; a String or a Class interns its Utf8 first
insert_constant(c, a) ==
    CASE a.k = "I32" -> InsertEntry(c, [tag |-> "Integer", bits |-> a.bits])
      [] a.k = "F32" -> InsertEntry(c, [tag |-> "Float", bits |-> a.bits])
      [] a.k = "I64" -> InsertEntry(c, [tag |-> "Long", bits |-> a.bits])
      [] a.k = "F64" -> InsertEntry(c, [tag |-> "Double", bits |-> a.bits])
      [] a.k = "String" ->
           Val({InsertEntry(u.cp, [tag |-> "String", utf8 |-> u.idx])
              : u \in {insert_utf8(c, a.s)}})
      [] a.k = "Class" -> insert_class(c, a.s)

\* super_index with None interned like a name, as the empty class name
SuperIndexInterned(c, super_name) ==
    insert_class(c, IF super_name = <<>> THEN <<>> ELSE super_name[1])

\* self.super_name.as_ref().map_or(0, |n| cp.insert_class(n.clone()))
super_index(c, super_name) ==
    IF super_name = <<>> THEN Ins(c, 0) ELSE insert_class(c, super_name[1])

KindByte(kind) ==
    CASE kind = "GetField" -> 1  [] kind = "GetStatic" -> 2
      [] kind = "PutField" -> 3  [] kind = "PutStatic" -> 4
      [] kind = "InvokeVirtual" -> 5 [] kind = "InvokeStatic" -> 6
      [] kind = "InvokeSpecial" -> 7 [] kind = "NewInvokeSpecial" -> 8
      [] kind = "InvokeInterface" -> 9

\* one entry on the wire: the tag byte and the entry's fields
EntryBytes(e) ==
    CASE e.tag = "Utf8" -> <<1>> \o U16(Len(e.s)) \o Mutf8(e.s)
      [] e.tag = "Class" -> <<7>> \o U16(e.name)
      [] e.tag = "Fieldref" -> <<9>> \o U16(e.class) \o U16(e.nat)
      [] e.tag = "Methodref" -> <<10>> \o U16(e.class) \o U16(e.nat)
      [] e.tag = "InterfaceMethodref" -> <<11>> \o U16(e.class) \o U16(e.nat)
      [] e.tag = "NameAndType" -> <<12>> \o U16(e.name) \o U16(e.desc)
      [] e.tag = "MethodHandle" -> <<15, KindByte(e.kind)>> \o U16(e.ref)
      [] e.tag = "Dynamic" -> <<17>> \o U16(e.bsm) \o U16(e.nat)
      [] e.tag = "InvokeDynamic" -> <<18>> \o U16(e.bsm) \o U16(e.nat)
      [] e.tag = "Integer" -> <<3>> \o e.bits
      [] e.tag = "Float" -> <<4>> \o e.bits
      [] e.tag = "Long" -> <<5>> \o e.bits
      [] e.tag = "Double" -> <<6>> \o e.bits
      [] e.tag = "String" -> <<8>> \o U16(e.utf8)
      [] e.tag = "Phantom" -> <<>>

\* VecCp::write_to: the slot count (last index + 1), then the entries in order
cp_write_to(c) ==
    U16(Len(c.entries) + 1) \o Concat([j \in 1..Len(c.entries) |-> EntryBytes(c.entries[j])])

(***************************************************************************)
(* The structures Class::write_to writes through the pool.  Each write     *)
(* gives the pool after it, the bytes appended and the pool indices used.  *)
(***************************************************************************)
W(c, bytes, idxs) == [bytes |-> bytes, idxs |-> idxs, cp |-> c]

StrBootstrapMethods ==
    <<"B", "o", "o", "t", "s", "t", "r", "a", "p", "M", "e", "t", "h", "o", "d", "s">>
StrSourceFile == <<"S", "o", "u", "r", "c", "e", "F", "i", "l", "e">>
StrDeprecated == <<"D", "e", "p", "r", "e", "c", "a", "t", "e", "d">>
StrCode == <<"C", "o", "d", "e">>

\* 0xCAFEBABE as the u32 codec writes it: CA FE BA BE
Magic == <<202, 254, 186, 190>>

\* JavaVersion::write_to: minor, then major
version_write_to(ver) == U16(ver.minor) \o U16(ver.major)

\* Field: flags, name, descriptor, attribute count
field_write_to(c, f) ==
    Val({
    Val({
        W(d.cp, U16(f.access) \o U16(n.idx) \o U16(d.idx) \o U16(0), {n.idx, d.idx})
      : d \in {insert_utf8(n.cp, fmt(f.descriptor))}})
      : n \in {insert_utf8(c, f.name)}})

RECURSIVE IndyLoop(_, _)
\* the invokedynamic instructions of a method body: opcode, entry index, 0, 0
IndyLoop(c, indys) ==
    IF indys = <<>> THEN W(c, <<>>, {})
    ELSE Val({
         Val({
             W(r.cp, <<186>> \o U16(e.idx) \o <<0, 0>> \o r.bytes, {e.idx} \cup r.idxs)
           : r \in {IndyLoop(e.cp, Tail(indys))}})
           : e \in {insert_dynamic(c, "InvokeDynamic", Head(indys))}})

\* the Code attribute of a method with a body: name, length, max_stack,
\* max_locals, code, no handlers, no attributes
code_write_to(c, head, idxs, indys) ==
    Val({
    Val({
    Val({
    Val({
        W(l.cp, head \o U16(1) \o U16(a.idx) \o U32(Len(payload)) \o payload,
          idxs \cup {a.idx} \cup l.idxs)
      : payload \in {U16(0) \o U16(0) \o U32(Len(code)) \o code \o U16(0) \o U16(0)}})
      : code \in {l.bytes \o <<177>>}})
      : l \in {IndyLoop(a.cp, indys)}})
      : a \in {insert_utf8(c, StrCode)}})

\* Method: flags, name, descriptor, and a Code attribute when it has a body
method_write_to(c, m) ==
    Val({
    Val({
    Val({
        IF m.indys = <<>> THEN W(d.cp, head \o U16(0), {n.idx, d.idx})
        ELSE code_write_to(d.cp, head, {n.idx, d.idx}, m.indys)
      : head \in {U16(m.access) \o U16(n.idx) \o U16(d.idx)}})
      : d \in {insert_utf8(n.cp, fmt(m.descriptor))}})
      : n \in {insert_utf8(c, m.name)}})

\* a class attribute other than BootstrapMethods: name, length, payload
attr_write_to(c, a) ==
    CASE a.k = "SourceFile" ->
           Val({
           Val({
               W(f.cp, U16(n.idx) \o U32(2) \o U16(f.idx), {n.idx, f.idx})
             : f \in {insert_utf8(n.cp, a.file)}})
             : n \in {insert_utf8(c, StrSourceFile)}})
      [] a.k = "Deprecated" ->
           Val({
               W(n.cp, U16(n.idx) \o U32(0), {n.idx})
             : n \in {insert_utf8(c, StrDeprecated)}})
      [] a.k = "Raw" ->
           Val({
               W(n.cp, U16(n.idx) \o U32(Len(a.inner)) \o a.inner, {n.idx})
             : n \in {insert_utf8(c, a.name)}})

AttrName(a) ==
    CASE a.k = "SourceFile" -> StrSourceFile
      [] a.k = "Deprecated" -> StrDeprecated
      [] a.k = "BootstrapMethods" -> StrBootstrapMethods
      [] a.k = "Raw" -> a.name

RECURSIVE ArgLoop(_, _)
\* the arguments of a bootstrap method: a Dynamic argument interns its own
\* bootstrap method
ArgLoop(c, args) ==
    IF args = <<>> THEN W(c, <<>>, {})
    ELSE Val({
         Val({
             W(r.cp, U16(e.idx) \o r.bytes, {e.idx} \cup r.idxs)
           : r \in {ArgLoop(e.cp, Tail(args))}})
           : e \in {insert_dynamic(c, "Dynamic", Head(args))}})

\* BootstrapMethod: method handle index, argument count, argument indices
bsm_write_to(c, b) ==
    Val({
    Val({
        W(a.cp, U16(h.idx) \o U16(Len(b.arguments)) \o a.bytes, {h.idx} \cup a.idxs)
      : a \in {ArgLoop(h.cp, b.arguments)}})
      : h \in {insert_method_handle(c, b.method)}})

RECURSIVE WriteAll(_, _, _)
\* for x in xs { x.write_to(&mut cp, &mut buf)? }
WriteAll(Op(_, _), c, xs) ==
    IF xs = <<>> THEN W(c, <<>>, {})
    ELSE Val({
         Val({
             W(r.cp, h.bytes \o r.bytes, h.idxs \cup r.idxs)
           : r \in {WriteAll(Op, h.cp, Tail(xs))}})
           : h \in {Op(c, Head(xs))}})

\* cp.insert_class(x).write_to(&mut buf)
class_index_write(c, name) ==
    Val({W(e.cp, U16(e.idx), {e.idx})
      : e \in {insert_class(c, name)}})

(***************************************************************************)
(* Reading: the pool of a class file (MapCp), the structures resolved      *)
(* against it, and Class::read_from (lib.rs).                              *)
(***************************************************************************)
Ok(val, pos) == [ok |-> TRUE, val |-> val, pos |-> pos]
Err(e, pos) == [ok |-> FALSE, err |-> e, pos |-> pos]

\* len bytes are left from pos on
Has(b, pos, len) == pos + len - 1 <= Len(b)

rd_u16(b, pos) == IF Has(b, pos, 2) THEN Ok(RdU16(b, pos), pos + 2) ELSE Err("UnexpectedEnd", pos)

rd_u32(b, pos) == IF Has(b, pos, 4) THEN Ok(RdU32(b, pos), pos + 4) ELSE Err("UnexpectedEnd", pos)

KindOfByte(n) == CHOOSE kind \in MethodHandleKind : KindByte(kind) = n

\* a pool entry of two u16 after its tag
two(b, pos, name) ==
    IF Has(b, pos, 5)
    THEN Ok([tag |-> name, a |-> RdU16(b, pos + 1), b |-> RdU16(b, pos + 3)], pos + 5)
    ELSE Err("UnexpectedEnd", pos)

\* one pool entry from its tag on
read_entry(b, pos) ==
    IF ~Has(b, pos, 1) THEN Err("UnexpectedEnd", pos)
    ELSE LET tag == b[pos]
         IN CASE tag = 1 ->
                   IF ~Has(b, pos, 3) THEN Err("UnexpectedEnd", pos)
                   ELSE LET n == RdU16(b, pos + 1)
                        IN  IF ~Has(b, pos + 3, n) THEN Err("UnexpectedEnd", pos)
                            ELSE IF \E j \in 1..n : ~IsAsciiByte(b[pos + 2 + j])
                                 THEN Err("Utf8", pos)
                            ELSE Ok([tag |-> "Utf8",
                                     s |-> Mutf8Decode(SubSeq(b, pos + 3, pos + 2 + n))],
                                    pos + 3 + n)
              [] tag = 7 ->
                   IF Has(b, pos, 3) THEN Ok([tag |-> "Class", name |-> RdU16(b, pos + 1)], pos + 3)
                   ELSE Err("UnexpectedEnd", pos)
              [] tag \in {9, 10, 11} ->
                   Val({IF ~r.ok THEN r ELSE Ok([tag |-> r.val.tag, class |-> r.val.a, nat |-> r.val.b],
                                      r.pos)
                     : r \in {two(b, pos, CASE tag = 9 -> "Fieldref" [] tag = 10 -> "Methodref" [] OTHER -> "InterfaceMethodref")}})
              [] tag = 12 ->
                   Val({IF ~r.ok THEN r ELSE Ok([tag |-> "NameAndType", name |-> r.val.a,
                                       desc |-> r.val.b], r.pos)
                     : r \in {two(b, pos, "NameAndType")}})
              [] tag = 15 ->
                   IF ~Has(b, pos, 4) THEN Err("UnexpectedEnd", pos)
                   ELSE IF b[pos + 1] \notin 1..9 THEN Err("Invalid", pos)
                   ELSE Ok([tag |-> "MethodHandle", kind |-> KindOfByte(b[pos + 1]),
                            ref |-> RdU16(b, pos + 2)], pos + 4)
              [] tag \in {17, 18} ->
                   Val({IF ~r.ok THEN r ELSE Ok([tag |-> r.val.tag, bsm |-> r.val.a, nat |-> r.val.b],
                                      r.pos)
                     : r \in {two(b, pos, IF tag = 17 THEN "Dynamic" ELSE "InvokeDynamic")}})
              [] OTHER -> Err("Invalid", pos)

RECURSIVE PoolLoop(_, _, _, _)
PoolLoop(b, pos, n, acc) ==
    IF n = 0 THEN Ok(acc, pos)
    ELSE Val({IF ~e.ok THEN e ELSE PoolLoop(b, e.pos, n - 1, Append(acc, e.val))
           : e \in {read_entry(b, pos)}})

\* MapCp::read_from: the slot count, then count - 1 entries
cp_read_from(b, pos) ==
    Val({IF ~c.ok THEN c ELSE IF c.val = 0 THEN Err("Invalid", pos)
                    ELSE PoolLoop(b, c.pos, c.val - 1, <<>>)
      : c \in {rd_u16(b, pos)}})

\* lookups: <<>> is None, <<x>> is Some(x)
entry(E, idx, tag) ==
    IF idx \in 1..Len(E) /\ E[idx].tag = tag THEN <<E[idx]>> ELSE <<>>

read_utf8(E, idx) == Val({IF e = <<>> THEN <<>> ELSE <<e[1].s>>
                       : e \in {entry(E, idx, "Utf8")}})

read_class(E, idx) == Val({IF e = <<>> THEN <<>> ELSE read_utf8(E, e[1].name)
                        : e \in {entry(E, idx, "Class")}})

\* name and descriptor text of a NameAndType entry
read_nat(E, idx) ==
    Val({IF e = <<>> THEN <<>> ELSE
    Val({IF n = <<>> THEN <<>> ELSE
    Val({IF d = <<>> THEN <<>> ELSE
    Val({
        IF t.ok THEN <<[name |-> n[1], descriptor |-> t.t]>> ELSE <<>>
      : t \in {from_str(d[1])}})
      : d \in {read_utf8(E, e[1].desc)}})
      : n \in {read_utf8(E, e[1].name)}})
      : e \in {entry(E, idx, "NameAndType")}})

read_member(E, idx) ==
    IF idx \notin 1..Len(E) \/ E[idx].tag \notin {"Fieldref", "Methodref", "InterfaceMethodref"}
    THEN <<>>
    ELSE Val({IF o = <<>> THEN <<>> ELSE
         Val({IF n = <<>> THEN <<>> ELSE
             <<MemberRef(o[1], n[1].name, n[1].descriptor, E[idx].tag = "InterfaceMethodref")>>
           : n \in {read_nat(E, E[idx].nat)}})
           : o \in {read_class(E, E[idx].class)}})

\* a MethodHandle entry lifted through MethodHandle::read_from
read_method_handle(E, idx) ==
    Val({IF e = <<>> THEN <<>> ELSE
    Val({IF m = <<>> THEN <<>> ELSE
        IF MethodHandle_read_from(MethodHandle(e[1].kind, m[1])).ok
        THEN <<MethodHandle(e[1].kind, m[1])>> ELSE <<>>
      : m \in {read_member(E, e[1].ref)}})
      : e \in {entry(E, idx, "MethodHandle")}})

\* a Dynamic or InvokeDynamic entry, its bootstrap method still an index
read_dynamic(E, idx, tag) ==
    Val({IF e = <<>> THEN <<>> ELSE
    Val({IF n = <<>> THEN <<>> ELSE
        <<[bsm |-> e[1].bsm, name |-> n[1].name, descriptor |-> n[1].descriptor]>>
      : n \in {read_nat(E, e[1].nat)}})
      : e \in {entry(E, idx, tag)}})

RECURSIVE ReadN(_, _, _, _, _, _)
\* a u16-counted vector: n elements read one after the other
ReadN(Op(_, _, _), E, b, pos, n, acc) ==
    IF n = 0 THEN Ok(acc, pos)
    ELSE Val({IF ~r.ok THEN r ELSE ReadN(Op, E, b, r.pos, n - 1, Append(acc, r.val))
           : r \in {Op(E, b, pos)}})

read_vec(Op(_, _, _), E, b, pos) ==
    Val({IF ~c.ok THEN c ELSE ReadN(Op, E, b, c.pos, c.val, <<>>)
      : c \in {rd_u16(b, pos)}})

\* #[str_type(Class)]: an index that must resolve to a class name
read_class_ref(E, b, pos) ==
    Val({IF ~x.ok THEN x ELSE
    Val({IF n = <<>> THEN Err("Invalid", pos) ELSE Ok(n[1], x.pos)
      : n \in {read_class(E, x.val)}})
      : x \in {rd_u16(b, pos)}})

\* an index that must resolve to text
read_utf8_ref(E, b, pos) ==
    Val({IF ~x.ok THEN x ELSE
    Val({IF n = <<>> THEN Err("Invalid", pos) ELSE Ok(n[1], x.pos)
      : n \in {read_utf8(E, x.val)}})
      : x \in {rd_u16(b, pos)}})

\* an index that must resolve to a descriptor
read_type_ref(E, b, pos) ==
    Val({IF ~x.ok THEN x ELSE
    Val({IF t.ok THEN Ok(t.t, x.pos) ELSE Err(t.err, pos)
      : t \in {from_str(x.val)}})
      : x \in {read_utf8_ref(E, b, pos)}})

\* name index, u32 length, payload[length]
read_attr_frame(E, b, pos) ==
    Val({IF ~n.ok THEN n ELSE
    Val({IF ~l.ok THEN l ELSE
        IF ~Has(b, l.pos, l.val) THEN Err("UnexpectedEnd", l.pos)
        ELSE Ok([name |-> n.val, inner |-> SubSeq(b, l.pos, l.pos + l.val - 1)],
                l.pos + l.val)
      : l \in {rd_u32(b, n.pos)}})
      : n \in {read_utf8_ref(E, b, pos)}})

AttrBootstrapMethods(list) == [k |-> "BootstrapMethods", list |-> list]

IsBsmAttr(a) == a.k = "BootstrapMethods"

RawAttr(f) == [k |-> "Raw", name |-> f.name, inner |-> f.inner]

read_raw_attr(E, b, pos) ==
    Val({IF ~f.ok THEN f ELSE Ok(RawAttr(f.val), f.pos)
      : f \in {read_attr_frame(E, b, pos)}})

\* Field: flags, name, descriptor, attributes
read_field(E, b, pos) ==
    Val({IF ~a.ok THEN a ELSE
    Val({IF ~n.ok THEN n ELSE
    Val({IF ~d.ok THEN d ELSE
    Val({IF ~t.ok THEN t ELSE
        Ok([access |-> a.val, name |-> n.val, descriptor |-> d.val, attrs |-> t.val],
           t.pos)
      : t \in {read_vec(read_raw_attr, E, b, d.pos)}})
      : d \in {read_type_ref(E, b, n.pos)}})
      : n \in {read_utf8_ref(E, b, a.pos)}})
      : a \in {rd_u16(b, pos)}})

RECURSIVE InsnLoop(_, _, _, _)
\* the instructions of a method body: invokedynamic (186) and return (177)
InsnLoop(E, code, pos, acc) ==
    IF pos > Len(code) THEN Ok(acc, pos)
    ELSE IF code[pos] = 177 THEN InsnLoop(E, code, pos + 1, acc)
    ELSE IF code[pos] = 186 /\ Has(code, pos, 5)
         THEN Val({IF d = <<>> THEN Err("Invalid", pos) ELSE InsnLoop(E, code, pos + 5, Append(acc, d[1]))
                : d \in {read_dynamic(E, RdU16(code, pos + 1), "InvokeDynamic")}})
    ELSE Err("Invalid", pos)

\* the payload of a Code attribute: max_stack, max_locals, code, no handlers,
\* no attributes
read_code(E, p) ==
    IF ~Has(p, 1, 8) THEN Err("UnexpectedEnd", 1)
    ELSE LET n == RdU32(p, 5)
         IN  IF ~Has(p, 9, n + 4) THEN Err("UnexpectedEnd", 9)
             ELSE InsnLoop(E, SubSeq(p, 9, 8 + n), 1, <<>>)

\* a method attribute: the model's methods carry a Code attribute or nothing
read_method_attr(E, b, pos) ==
    Val({IF ~f.ok THEN f ELSE
        IF f.val.name # StrCode THEN Err("Invalid", pos)
        ELSE Val({IF c.ok THEN Ok(c.val, f.pos) ELSE Err(c.err, pos)
               : c \in {read_code(E, f.val.inner)}})
      : f \in {read_attr_frame(E, b, pos)}})

\* Method: flags, name, descriptor, attributes
read_method(E, b, pos) ==
    Val({IF ~a.ok THEN a ELSE
    Val({IF ~n.ok THEN n ELSE
    Val({IF ~d.ok THEN d ELSE
    Val({IF ~t.ok THEN t ELSE
        Ok([access |-> a.val, name |-> n.val, descriptor |-> d.val,
            indys |-> Concat(t.val)], t.pos)
      : t \in {read_vec(read_method_attr, E, b, d.pos)}})
      : d \in {read_type_ref(E, b, n.pos)}})
      : n \in {read_utf8_ref(E, b, a.pos)}})
      : a \in {rd_u16(b, pos)}})

\* a bootstrap argument: an index that must resolve to a Dynamic entry
read_bsm_arg(E, b, pos) ==
    Val({IF ~x.ok THEN x ELSE
    Val({IF d = <<>> THEN Err("Invalid", pos) ELSE Ok(d[1], x.pos)
      : d \in {read_dynamic(E, x.val, "Dynamic")}})
      : x \in {rd_u16(b, pos)}})

\* BootstrapMethod: method handle index, u16-counted arguments
read_bsm(E, b, pos) ==
    Val({IF ~x.ok THEN x ELSE
    Val({IF h = <<>> THEN Err("Invalid", pos) ELSE
    Val({IF ~a.ok THEN a ELSE
        Ok([method |-> h[1], arguments |-> a.val], a.pos)
      : a \in {read_vec(read_bsm_arg, E, b, x.pos)}})
      : h \in {read_method_handle(E, x.val)}})
      : x \in {rd_u16(b, pos)}})

\* the payload of a BootstrapMethods attribute, Raw when it does not decode
read_bsm_attr(E, f) ==
    Val({
        IF l.ok /\ l.pos = Len(f.val.inner) + 1
        THEN Ok(AttrBootstrapMethods(l.val), f.pos)
        ELSE Ok(RawAttr(f.val), f.pos)
      : l \in {read_vec(read_bsm, E, f.val.inner, 1)}})

\* the payload of a SourceFile attribute, Raw when it does not decode
read_source_file_attr(E, f) ==
    IF Len(f.val.inner) # 2 THEN Ok(RawAttr(f.val), f.pos)
    ELSE Val({
             IF n = <<>> THEN Ok(RawAttr(f.val), f.pos)
             ELSE Ok([k |-> "SourceFile", file |-> n[1]], f.pos)
           : n \in {read_utf8(E, RdU16(f.val.inner, 1))}})

\* a class attribute, dispatched on its name; a payload that does not
\* decode is kept as Raw
read_class_attr(E, b, pos) ==
    Val({IF ~f.ok THEN f ELSE
        CASE f.val.name = StrSourceFile -> read_source_file_attr(E, f)
          [] f.val.name = StrDeprecated ->
               IF f.val.inner = <<>> THEN Ok([k |-> "Deprecated"], f.pos)
               ELSE Ok(RawAttr(f.val), f.pos)
          [] f.val.name = StrBootstrapMethods -> read_bsm_attr(E, f)
          [] OTHER -> Ok(RawAttr(f.val), f.pos)
      : f \in {read_attr_frame(E, b, pos)}})

RECURSIVE resolve_bsm(_, _, _)
\* the bootstrap method at 0-based index j of the table, its Dynamic
\* arguments resolved in turn; fuel bounds the chase through the table
resolve_bsm(T, j, fuel) ==
    IF fuel = 0 \/ j \notin 0..(Len(T) - 1) THEN <<>>
    ELSE Val({
                 IF \E a \in 1..Len(args) : args[a] = <<>> THEN <<>>
                 ELSE <<[method |-> T[j + 1].method,
                         arguments |-> [a \in 1..Len(args) |->
                             [T[j + 1].arguments[a] EXCEPT !.bsm = args[a][1]]]]>>
           : args \in {[a \in 1..Len(T[j + 1].arguments) |-> resolve_bsm(T, T[j + 1].arguments[a].bsm, fuel - 1)]}})

\* a call site or Dynamic constant with its bootstrap method resolved
resolve_dynamic(T, d) ==
    Val({IF r = <<>> THEN <<>> ELSE <<[d EXCEPT !.bsm = r[1]]>>
      : r \in {resolve_bsm(T, d.bsm, Len(T))}})

\* the table of the first BootstrapMethods attribute (the loop breaks there)
first_bsm_table(attrs) ==
    IF \E j \in 1..Len(attrs) : IsBsmAttr(attrs[j])
    THEN attrs[CHOOSE j \in 1..Len(attrs) :
                 IsBsmAttr(attrs[j]) /\ \A m \in 1..(j - 1) : ~IsBsmAttr(attrs[m])].list
    ELSE <<>>

\* the call sites of the methods and the arguments of the bootstrap methods,
\* each completed against the table T, or left as read when the table was
\* never given (called is false)
resolve_sites(c, T, called) ==
    [methods |-> [m \in 1..Len(c.methods) |->
                    [j \in 1..Len(c.methods[m].indys) |->
                       IF called THEN resolve_dynamic(T, c.methods[m].indys[j])
                       ELSE <<[c.methods[m].indys[j] EXCEPT !.bsm = Unresolved(@)]>>]],
     attributes |-> [a \in 1..Len(c.attributes) |->
                    IF IsBsmAttr(c.attributes[a])
                    THEN [j \in 1..Len(c.attributes[a].list) |->
                            [x \in 1..Len(c.attributes[a].list[j].arguments) |->
                               resolve_dynamic(T, c.attributes[a].list[j].arguments[x])]]
                    ELSE <<>>]]

\* cp.bootstrap_methods(b): every pending Dynamic reference is completed
\* against the table, and one that cannot be is an error; without a
\* BootstrapMethods attribute the call is not made and the references stay
\* as they were read
resolve_class(c) ==
    Val({
            IF \/ \E m \in 1..Len(R.methods) :
                     \E j \in 1..Len(R.methods[m]) : R.methods[m][j] = <<>>
               \/ \E a \in 1..Len(R.attributes) :
                     \E j \in 1..Len(R.attributes[a]) :
                        \E x \in 1..Len(R.attributes[a][j]) : R.attributes[a][j][x] = <<>>
            THEN <<>>
            ELSE <<[c EXCEPT
                      !.methods = [m \in 1..Len(c.methods) |->
                          [c.methods[m] EXCEPT !.indys =
                              [j \in 1..Len(c.methods[m].indys) |-> R.methods[m][j][1]]]],
                      !.attributes = [a \in 1..Len(c.attributes) |->
                          IF IsBsmAttr(c.attributes[a])
                          THEN AttrBootstrapMethods(
                                 [j \in 1..Len(c.attributes[a].list) |->
                                    [c.attributes[a].list[j] EXCEPT !.arguments =
                                       [x \in 1..Len(c.attributes[a].list[j].arguments) |->
                                          R.attributes[a][j][x][1]]]])
                          ELSE c.attributes[a]]]>>
      : R \in {resolve_sites(c, first_bsm_table(c.attributes), \E a \in 1..Len(c.attributes) : IsBsmAttr(c.attributes[a]))}})

\* the bits ClassFlags defines
ClassFlagBits == {0, 4, 5, 9, 10, 12, 13, 14, 15}

Bit(x, n) == (x \div (2 ^ n)) % 2

\* ClassFlags::from_bits(x).unwrap(): None, and so a panic, on a bit that
\* ClassFlags does not define
class_flags_read(b, pos) ==
    Val({IF ~x.ok THEN x ELSE
        IF \E n \in 0..15 : Bit(x.val, n) = 1 /\ n \notin ClassFlagBits
        THEN Err("panic", pos)
        ELSE x
      : x \in {rd_u16(b, pos)}})

\* #[str_optional] #[str_type(Class)]: index 0 is None
read_super(E, b, pos) ==
    Val({IF ~x.ok THEN x ELSE
        IF x.val = 0 THEN Ok(<<>>, x.pos)
        ELSE Val({IF n = <<>> THEN Err("Invalid", pos) ELSE Ok(<<n[1]>>, x.pos)
               : n \in {read_class(E, x.val)}})
      : x \in {rd_u16(b, pos)}})

\* ClassWrapper::read_from: flags, name, super, interfaces, fields, methods,
\* attributes
ClassWrapper_read_from(E, b, pos) ==
    Val({IF ~a.ok THEN a ELSE
    Val({IF ~n.ok THEN n ELSE
    Val({IF ~s.ok THEN s ELSE
    Val({IF ~t.ok THEN t ELSE
    Val({IF ~f.ok THEN f ELSE
    Val({IF ~m.ok THEN m ELSE
    Val({IF ~x.ok THEN x ELSE
        Ok([access |-> a.val, name |-> n.val, super_name |-> s.val,
            interfaces |-> t.val, fields |-> f.val, methods |-> m.val,
            attributes |-> x.val], x.pos)
      : x \in {read_vec(read_class_attr, E, b, m.pos)}})
      : m \in {read_vec(read_method, E, b, f.pos)}})
      : f \in {read_vec(read_field, E, b, t.pos)}})
      : t \in {read_vec(read_class_ref, E, b, s.pos)}})
      : s \in {read_super(E, b, n.pos)}})
      : n \in {read_class_ref(E, b, a.pos)}})
      : a \in {class_flags_read(b, pos)}})

\* the error of a header that is not 0xCAFEBABE
BadHeader(found) ==
    [ok |-> FALSE, err |-> "Invalid", ctx |-> "class header", found |-> found, pos |-> 5]

\* Class::read_from
Class_read_from(b) ==
    IF ~Has(b, 1, 4) THEN Err("UnexpectedEnd", 1)
    ELSE IF SubSeq(b, 1, 4) # Magic THEN BadHeader(SubSeq(b, 1, 4))
    ELSE Val({IF ~mi.ok THEN mi ELSE
         Val({IF ~ma.ok THEN ma ELSE
         Val({IF ~E.ok THEN E ELSE
         Val({IF ~c.ok THEN c ELSE
         Val({IF r = <<>> THEN Err("Invalid", c.pos) ELSE
             Ok([version |-> [major |-> ma.val, minor |-> mi.val],
                 access |-> r[1].access, name |-> r[1].name, super_name |-> r[1].super_name,
                 interfaces |-> r[1].interfaces, fields |-> r[1].fields,
                 methods |-> r[1].methods, attributes |-> r[1].attributes],
                c.pos)
           : r \in {resolve_class(c.val)}})
           : c \in {ClassWrapper_read_from(E.val, b, E.pos)}})
           : E \in {cp_read_from(b, 9)}})
           : ma \in {rd_u16(b, 7)}})
           : mi \in {rd_u16(b, 5)}})

(***************************************************************************)
(* The handles the MethodHandle machine is run on.                         *)
(***************************************************************************)
HandleNames == {NameInit, NameClinit, NameM}

HandleDescriptors ==
    {TPrim("Int"), TRef(<<"a">>), TArrayRef(1, TPrim("Int")),
     TMethod(<<>>, <<>>), TMethod(<<TPrim("Int")>>, <<TPrim("Int")>>)}

Handles ==
    {MethodHandle(k, MemberRef(<<"X">>, n, d, FALSE)) :
        k \in MethodHandleKind, n \in HandleNames, d \in HandleDescriptors}

MhIdle == [pc |-> "idle", op |-> "none", h |-> MethodHandle("GetField",
              MemberRef(<<>>, <<>>, TPrim("Int"), FALSE)), res |-> ROk, wrote |-> <<>>]

MhInit == mh \in {[pc |-> "start", op |-> o, h |-> h, res |-> ROk, wrote |-> <<>>] :
                     o \in {"read", "write"}, h \in Handles}

\* a MethodHandle entry of a class file's pool is read
MhRead ==
    /\ mh.pc = "start" /\ mh.op = "read"
    /\ mh' = [mh EXCEPT !.pc = "done", !.res = MethodHandle_read_from(mh.h)]
    /\ UNCHANGED <<ty, utf, pipe>>

\* a MethodHandle is written
MhWrite ==
    /\ mh.pc = "start" /\ mh.op = "write"
    /\ \E w \in {MethodHandle_write_to(mh.h)} :
           mh' = [mh EXCEPT !.pc = "done", !.res = w.res, !.wrote = w.wrote]
    /\ UNCHANGED <<ty, utf, pipe>>

(***************************************************************************)
(* The descriptor machine: parse the input, then emit the parsed Type.     *)
(***************************************************************************)
TyIdle == [pc |-> "idle", input |-> <<>>, res |-> TErr("none"), emitted |-> <<>>]

TyInit == ty \in {[pc |-> "parse", input |-> s, res |-> TErr("none"), emitted |-> <<>>] :
                     s \in TypeInputs}

\* s.parse::<Type>()
TyParse ==
    /\ ty.pc = "parse"
    /\ ty' = [ty EXCEPT !.pc = "parsed", !.res = from_str(ty.input)]
    /\ UNCHANGED <<mh, utf, pipe>>

\* t.to_string()
TyEmit ==
    /\ ty.pc = "parsed"
    /\ ty.res.ok
    /\ ty' = [ty EXCEPT !.pc = "emitted", !.emitted = fmt(ty.res.t)]
    /\ UNCHANGED <<mh, utf, pipe>>

(***************************************************************************)
(* The classes the pipeline is run on.                                     *)
(***************************************************************************)
H1 == MethodHandle("InvokeStatic", MemberRef(<<"X">>, <<"m">>, TMethod(<<>>, <<>>), FALSE))

\* a Dynamic constant used as a bootstrap argument
DynArg(b) == [bsm |-> b, name |-> <<"d">>, descriptor |-> TPrim("Int")]

\* an invokedynamic call site
CallSite(b) == [bsm |-> b, name |-> <<"r">>, descriptor |-> TMethod(<<>>, <<>>)]

BsmLeaf == [method |-> H1, arguments |-> <<>>]

BsmNest(b) == [method |-> H1, arguments |-> <<DynArg(b)>>]

RECURSIVE BsmsOfDepth(_)
BsmsOfDepth(d) ==
    IF d = 0 THEN {BsmLeaf}
    ELSE BsmsOfDepth(d - 1) \cup {BsmNest(b) : b \in BsmsOfDepth(d - 1)}

Bsms == BsmsOfDepth(MaxBsmDepth)

IndyLists == SeqsUpTo({CallSite(b) : b \in Bsms}, MaxIndy)

RECURSIVE Reach(_)
\* a bootstrap method followed by those its arguments refer to
Reach(b) == <<b>> \o Concat([j \in 1..Len(b.arguments) |-> Reach(b.arguments[j].bsm)])

RECURSIVE Dedup(_, _)
Dedup(xs, seen) ==
    IF xs = <<>> THEN <<>>
    ELSE IF Head(xs) \in seen THEN Dedup(Tail(xs), seen)
    ELSE <<Head(xs)>> \o Dedup(Tail(xs), seen \cup {Head(xs)})

\* a BootstrapMethods table holding every bootstrap method the call sites need
TableOf(indys) == Dedup(Concat([j \in 1..Len(indys) |-> Reach(indys[j].bsm)]), {})

AttrSourceFile == [k |-> "SourceFile", file |-> <<"X">>]

MethodOf(indys) ==
    [access |-> 1, name |-> <<"m">>, descriptor |-> TMethod(<<>>, <<>>), indys |-> indys]

FieldF == [access |-> 2, name |-> <<"f">>, descriptor |-> TPrim("Int"), attrs |-> <<>>]

Version52 == [major |-> 52, minor |-> 0]
Version45 == [major |-> 45, minor |-> 3]

ClassOf(ver, super, itfs, fields, methods, attrs) ==
    [version |-> ver, access |-> 33, name |-> <<"X">>, super_name |-> super,
     interfaces |-> itfs, fields |-> fields, methods |-> methods, attributes |-> attrs]

\* the attribute values a class with the given call sites may carry
AttrValues(indys) ==
    {AttrSourceFile, AttrBootstrapMethods(<<>>),
     AttrBootstrapMethods(IF indys = <<>> THEN <<BsmLeaf>> ELSE TableOf(indys))}

EnvelopeClasses ==
    {ClassOf(ver, super, itfs, fields, <<>>, <<>>) :
        ver \in {Version52, Version45},
        super \in {<<>>, <<<<"X">>>>, <<<<"Y">>>>},
        itfs \in {<<>>, <<<<"Y">>>>, <<<<"X">>, <<"Z">>>>},
        fields \in {<<>>, <<FieldF>>}}

AttrClasses ==
    UNION {{ClassOf(Version52, <<<<"Y">>>>, <<>>, <<>>, <<MethodOf(ind)>>, attrs) :
               attrs \in SeqsUpTo(AttrValues(ind), MaxAttrs)} : ind \in IndyLists}

Classes == EnvelopeClasses \cup AttrClasses

(***************************************************************************)
(* Class files given to the reader: a well-formed file for each class      *)
(* whose BootstrapMethods table holds what its call sites need, and        *)
(* malformed headers.                                                      *)
(***************************************************************************)
Range(f) == {f[x] : x \in DOMAIN f}

\* every bootstrap method the class refers to is in its first table
Closed(c) ==
    LET T == Range(first_bsm_table(c.attributes))
    IN  /\ \A m \in 1..Len(c.methods) : \A j \in 1..Len(c.methods[m].indys) :
              Range(Reach(c.methods[m].indys[j].bsm)) \subseteq T
        /\ \A a \in 1..Len(c.attributes) :
              IsBsmAttr(c.attributes[a]) =>
                 \A j \in 1..Len(c.attributes[a].list) :
                     Range(Reach(c.attributes[a].list[j])) \subseteq T

\* an attribute of a well-formed file: the BootstrapMethods length covers
\* the count and the entries
file_attr(c, a) ==
    IF IsBsmAttr(a)
    THEN Val({
         Val({
             W(l.cp, U16(n.idx) \o U32(2 + Len(l.bytes)) \o U16(Len(a.list)) \o l.bytes, {})
           : l \in {WriteAll(bsm_write_to, n.cp, a.list)}})
           : n \in {insert_utf8(c, StrBootstrapMethods)}})
    ELSE attr_write_to(c, a)

\* the body of the file (flags, this, super, interfaces, fields, methods,
\* attributes) and the pool it leaves
file_body(c, c0) ==
    Val({
    Val({
    Val({
    Val({
    Val({
    Val({
        W(x.cp,
          U16(c.access) \o n.bytes \o s.bytes
             \o U16(Len(c.interfaces)) \o t.bytes
             \o U16(Len(c.fields)) \o f.bytes
             \o U16(Len(c.methods)) \o m.bytes
             \o U16(Len(c.attributes)) \o x.bytes,
          {})
      : x \in {WriteAll(file_attr, m.cp, c.attributes)}})
      : m \in {WriteAll(method_write_to, f.cp, c.methods)}})
      : f \in {WriteAll(field_write_to, t.cp, c.fields)}})
      : t \in {WriteAll(class_index_write, s.cp, c.interfaces)}})
      : s \in {IF c.super_name = <<>> THEN W(n.cp, U16(0), {}) ELSE class_index_write(n.cp, c.super_name[1])}})
      : n \in {class_index_write(c0, c.name)}})

\* a well-formed class file holding c; bootstrap indices are positions in
\* the first table
ClassFile(c) ==
    Val({
             Magic \o version_write_to(c.version) \o cp_write_to(out.cp) \o out.bytes
      : out \in {file_body(c, [VecCpNew EXCEPT !.bsmAll = first_bsm_table(c.attributes)])}})

FileClasses == {c \in Classes : Closed(c)}

BuiltClasses == Classes \ FileClasses

\* the first four bytes replaced
WithHeader(h, b) == h \o SubSeq(b, 5, Len(b))

BadHeaders == {<<202, 254, 186, 191>>, <<190, 186, 254, 202>>, <<0, 0, 0, 0>>,
               <<202, 254, 208, 13>>}

BadMagicInputs ==
    {WithHeader(h, ClassFile(c)) : h \in BadHeaders, c \in EnvelopeClasses}
        \cup BadHeaders

ShortInputs == {<<>>, <<202, 254>>, Magic, Magic \o <<0, 0>>}

\* access_flags words: bits ClassFlags defines, and bits it does not
\* (ACC_PRIVATE, ACC_STATIC, every bit)
AccessCases == {0, 1, 1057, 2, 41, 65535}

FlagClass == ClassOf(Version52, <<<<"Y">>>>, <<>>, <<>>, <<>>, <<>>)

FlagInputs == {ClassFile([FlagClass EXCEPT !.access = a]) : a \in AccessCases}

ClassInputs ==
    {ClassFile(c) : c \in FileClasses} \cup BadMagicInputs \cup ShortInputs
        \cup FlagInputs

(***************************************************************************)
(* Class::write_to, step by step (lib.rs).                                 *)
(***************************************************************************)
HistNew == [attrLog |-> <<>>, taken |-> <<>>, written |-> <<>>,
            poolWritten |-> FALSE, idxs |-> {}, countAt |-> 0]

NoRead == Err("none", 0)

IoBuilt == [src |-> "built", input |-> <<>>, round |-> 1, w1 |-> <<>>,
            rd |-> NoRead, rd2 |-> NoRead]

IoFile(b) == [IoBuilt EXCEPT !.src = "file", !.input = b]

\* 0xCAFEBABEu32.write_to(writer)?; self.version.write_to(writer)?;
\* let mut cp = VecCp::new(); let mut buf = vec![];
WriteHeader ==
    /\ pc = "write"
    /\ writer' = Magic \o version_write_to(cls.version)
    /\ cp' = VecCpNew
    /\ buf' = <<>>
    /\ pc' = "envelope"
    /\ UNCHANGED <<ty, mh, utf, cls, buf2, bsm, i, v, ai, io, hist>>

\* access flags, this class, super class (0 when None), interfaces
WriteEnvelope ==
    /\ pc = "envelope"
    /\ \E n \in {class_index_write(cp, cls.name)} :
       \E s \in {IF cls.super_name = <<>> THEN W(n.cp, U16(0), {})
                 ELSE class_index_write(n.cp, cls.super_name[1])} :
       \E t \in {WriteAll(class_index_write, s.cp, cls.interfaces)} :
           /\ buf' = buf \o U16(cls.access) \o n.bytes \o s.bytes
                        \o U16(Len(cls.interfaces)) \o t.bytes
           /\ cp' = t.cp
           /\ hist' = [hist EXCEPT !.idxs = @ \cup n.idxs \cup s.idxs \cup t.idxs]
    /\ pc' = "fields"
    /\ UNCHANGED <<ty, mh, utf, cls, writer, buf2, bsm, i, v, ai, io>>

\* (self.fields.len() as u16), then every field
WriteFields ==
    /\ pc = "fields"
    /\ \E f \in {WriteAll(field_write_to, cp, cls.fields)} :
           /\ buf' = buf \o U16(Len(cls.fields)) \o f.bytes
           /\ cp' = f.cp
           /\ hist' = [hist EXCEPT !.idxs = @ \cup f.idxs]
    /\ pc' = "methods"
    /\ UNCHANGED <<ty, mh, utf, cls, writer, buf2, bsm, i, v, ai, io>>

\* (self.methods.len() as u16), then every method
WriteMethods ==
    /\ pc = "methods"
    /\ \E m \in {WriteAll(method_write_to, cp, cls.methods)} :
           /\ buf' = buf \o U16(Len(cls.methods)) \o m.bytes
           /\ cp' = m.cp
           /\ hist' = [hist EXCEPT !.idxs = @ \cup m.idxs]
    /\ pc' = "attr_count"
    /\ UNCHANGED <<ty, mh, utf, cls, writer, buf2, bsm, i, v, ai, io>>

\* (self.attributes.len() as u16).write_to(&mut buf)?; let mut bsm = vec![];
WriteAttrCount ==
    /\ pc = "attr_count"
    /\ buf' = buf \o U16(Len(cls.attributes))
    /\ bsm' = <<>>
    /\ ai' = 1
    /\ hist' = [hist EXCEPT !.countAt = Len(buf)]
    /\ pc' = IF cls.attributes = <<>> THEN "bsm_check" ELSE "attrs"
    /\ UNCHANGED <<ty, mh, utf, cls, writer, cp, buf2, i, v, io>>

\* WriteAttr with the BootstrapMethods attribute written where it stands in
\* the list, like any other attribute
WriteAttrInPlace ==
    /\ pc = "attrs"
    /\ ai <= Len(cls.attributes)
    /\ \E a \in {cls.attributes[ai]} :
       \E w \in {IF IsBsmAttr(a) THEN file_attr(cp, a) ELSE attr_write_to(cp, a)} :
           /\ buf' = buf \o w.bytes
           /\ cp' = w.cp
           /\ hist' = [hist EXCEPT
                          !.attrLog = Append(@, [k |-> a.k, at |-> Len(buf)]),
                          !.idxs = @ \cup w.idxs]
    /\ ai' = ai + 1
    /\ pc' = IF ai = Len(cls.attributes) THEN "bsm_check" ELSE "attrs"
    /\ UNCHANGED <<ty, mh, utf, cls, writer, buf2, bsm, i, v, io>>

\* one turn of "for a in &self.attributes": a BootstrapMethods attribute only
\* extends the local list, any other attribute is written
WriteAttr ==
    /\ pc = "attrs"
    /\ ai <= Len(cls.attributes)
    /\ LET a == cls.attributes[ai]
       IN  IF IsBsmAttr(a)
           THEN /\ bsm' = bsm \o a.list
                /\ UNCHANGED <<buf, cp, hist>>
           ELSE \E w \in {attr_write_to(cp, a)} :
                    /\ buf' = buf \o w.bytes
                    /\ cp' = w.cp
                    /\ hist' = [hist EXCEPT
                                   !.attrLog = Append(@, [k |-> a.k, at |-> Len(buf)]),
                                   !.idxs = @ \cup w.idxs]
                    /\ UNCHANGED bsm
    /\ ai' = ai + 1
    /\ pc' = IF ai = Len(cls.attributes) THEN "bsm_check" ELSE "attrs"
    /\ UNCHANGED <<ty, mh, utf, cls, writer, buf2, i, v, io>>

\* if !bsm.is_empty() is false: nothing more is appended to buf
BsmSkip ==
    /\ pc = "bsm_check"
    /\ bsm = <<>>
    /\ pc' = "pool"
    /\ UNCHANGED <<ty, mh, utf, cls, writer, cp, buf, buf2, bsm, i, v, ai, io, hist>>

\* if !bsm.is_empty() { let mut i: u16 = 0; let mut buf2 = vec![];
BsmBegin ==
    /\ pc = "bsm_check"
    /\ bsm # <<>>
    /\ i' = 0
    /\ buf2' = <<>>
    /\ pc' = "drain"
    /\ UNCHANGED <<ty, mh, utf, cls, writer, cp, buf, bsm, v, ai, io, hist>>

\* DrainTake without "cp.bsm = vec![]": the pending list is copied, not taken
DrainTakeKeep ==
    /\ pc = "drain"
    /\ cp.bsm # <<>>
    /\ v' = cp.bsm
    /\ i' = (i + Len(cp.bsm)) % 65536
    /\ hist' = [hist EXCEPT !.taken = @ \o cp.bsm]
    /\ pc' = "drain_write"
    /\ UNCHANGED <<ty, mh, utf, cls, writer, cp, buf, buf2, bsm, ai, io>>

\* while !cp.bsm.is_empty() { let v = cp.bsm; cp.bsm = vec![]; i += v.len() as u16;
DrainTake ==
    /\ pc = "drain"
    /\ cp.bsm # <<>>
    /\ v' = cp.bsm
    /\ cp' = [cp EXCEPT !.bsm = <<>>]
    /\ i' = (i + Len(cp.bsm)) % 65536
    /\ hist' = [hist EXCEPT !.taken = @ \o cp.bsm]
    /\ pc' = "drain_write"
    /\ UNCHANGED <<ty, mh, utf, cls, writer, buf, buf2, bsm, ai, io>>

\* one turn of "for bsm in v { bsm.write_to(&mut cp, &mut buf2)?; }"
DrainWrite ==
    /\ pc = "drain_write"
    /\ v # <<>>
    /\ \E w \in {bsm_write_to(cp, Head(v))} :
           /\ buf2' = buf2 \o w.bytes
           /\ cp' = w.cp
           /\ hist' = [hist EXCEPT !.written = Append(@, Head(v)), !.idxs = @ \cup w.idxs]
    /\ v' = Tail(v)
    /\ pc' = IF Tail(v) = <<>> THEN "drain" ELSE "drain_write"
    /\ UNCHANGED <<ty, mh, utf, cls, writer, buf, bsm, i, ai, io>>

\* the loop is left: the attribute name, (buf2.len() as u32), i, buf2
BsmEmit ==
    /\ pc = "drain"
    /\ cp.bsm = <<>>
    /\ \E n \in {insert_utf8(cp, StrBootstrapMethods)} :
           /\ buf' = buf \o U16(n.idx) \o U32(Len(buf2)) \o U16(i) \o buf2
           /\ cp' = n.cp
           /\ hist' = [hist EXCEPT
                          !.attrLog = Append(@, [k |-> "BootstrapMethods", at |-> Len(buf)]),
                          !.idxs = @ \cup {n.idx}]
    /\ pc' = "pool"
    /\ UNCHANGED <<ty, mh, utf, cls, writer, buf2, bsm, i, v, ai, io>>

\* WritePool moved up: the pool goes out before the class attributes are
\* serialized
WritePoolEarly ==
    /\ pc = "attr_count"
    /\ ~hist.poolWritten
    /\ writer' = writer \o cp_write_to(cp)
    /\ hist' = [hist EXCEPT !.poolWritten = TRUE]
    /\ pc' = "attr_count"
    /\ UNCHANGED <<ty, mh, utf, cls, cp, buf, buf2, bsm, i, v, ai, io>>

\* cp.write_to(writer)?
WritePool ==
    /\ pc = "pool"
    /\ writer' = writer \o cp_write_to(cp)
    /\ hist' = [hist EXCEPT !.poolWritten = TRUE]
    /\ pc' = "body"
    /\ UNCHANGED <<ty, mh, utf, cls, cp, buf, buf2, bsm, i, v, ai, io>>

\* writer.write_all(&buf)?; Ok(())
WriteBody ==
    /\ pc = "body"
    /\ writer' = writer \o buf
    /\ pc' = "written"
    /\ UNCHANGED <<ty, mh, utf, cls, cp, buf, buf2, bsm, i, v, ai, io, hist>>

ClassIdle ==
    ClassOf(Version52, <<>>, <<>>, <<>>, <<>>, <<>>)

\* a class value built by the caller is written
PipeInitBuilt ==
    /\ pc = "write"
    /\ cls \in BuiltClasses
    /\ writer = <<>> /\ cp = VecCpNew /\ buf = <<>> /\ buf2 = <<>>
    /\ bsm = <<>> /\ i = 0 /\ v = <<>> /\ ai = 0
    /\ io = IoBuilt
    /\ hist = HistNew

\* a class file is read, and what was read is written
PipeInitFile ==
    /\ pc = "read"
    /\ cls = ClassIdle
    /\ writer = <<>> /\ cp = VecCpNew /\ buf = <<>> /\ buf2 = <<>>
    /\ bsm = <<>> /\ i = 0 /\ v = <<>> /\ ai = 0
    /\ io \in {IoFile(b) : b \in ClassInputs}
    /\ hist = HistNew

\* let class: Class = ReadWrite::read_from(&mut reader)
ReadInput ==
    /\ pc = "read"
    /\ \E r \in {Class_read_from(io.input)} :
           /\ io' = [io EXCEPT !.rd = r]
           /\ cls' = IF r.ok THEN r.val ELSE cls
           /\ pc' = IF r.ok THEN "write" ELSE "read_failed"
    /\ UNCHANGED <<ty, mh, utf, writer, cp, buf, buf2, bsm, i, v, ai, hist>>

\* the bytes written are read again, and the class read is written again
ReadBack ==
    /\ pc = "written"
    /\ io.round = 1
    /\ \E r \in {Class_read_from(writer)} :
           /\ io' = [io EXCEPT !.rd2 = r, !.w1 = writer, !.round = 2]
           /\ cls' = IF r.ok THEN r.val ELSE cls
           /\ pc' = IF r.ok THEN "write" ELSE "reread_failed"
    /\ writer' = <<>> /\ cp' = VecCpNew /\ buf' = <<>> /\ buf2' = <<>>
    /\ bsm' = <<>> /\ i' = 0 /\ v' = <<>> /\ ai' = 0
    /\ hist' = HistNew
    /\ UNCHANGED <<ty, mh, utf>>

PipeIdle ==
    /\ pc = "idle"
    /\ cls = ClassIdle
    /\ writer = <<>> /\ cp = VecCpNew /\ buf = <<>> /\ buf2 = <<>>
    /\ bsm = <<>> /\ i = 0 /\ v = <<>> /\ ai = 0
    /\ io = IoBuilt
    /\ hist = HistNew

(***************************************************************************)
(* The pool machine: a sequence of inserts into one writer pool, then      *)
(* VecCp::write_to; or one comparison of two constants.                    *)
(***************************************************************************)
F32PosZero == <<0, 0, 0, 0>>
F32NegZero == <<128, 0, 0, 0>>
F32One == <<63, 128, 0, 0>>
F32Inf == <<127, 128, 0, 0>>
F32NaN == <<127, 192, 0, 0>>
F32NaNPayload == <<127, 192, 0, 1>>
F64PosZero == <<0, 0, 0, 0, 0, 0, 0, 0>>
F64NegZero == <<128, 0, 0, 0, 0, 0, 0, 0>>
F64One == <<63, 240, 0, 0, 0, 0, 0, 0>>
F64NaN == <<127, 248, 0, 0, 0, 0, 0, 0>>

FloatConstants ==
    {CF32(b) : b \in {F32PosZero, F32NegZero, F32One, F32Inf, F32NaN, F32NaNPayload}}
        \cup {CF64(b) : b \in {F64PosZero, F64NegZero, F64One, F64NaN}}

\* the inserts the machine draws from
UtfOp(str) == [f |-> "utf8", s |-> str]
ClassOp(name) == [f |-> "class", s |-> name]
SuperOp(super_name) == [f |-> "super", sup |-> super_name]
MemberOp(m) == [f |-> "member", m |-> m]
ConstOp(a) == [f |-> "constant", c |-> a]

PoolOps ==
    {UtfOp(<<"X">>), ClassOp(<<"X">>), ClassOp(<<"Y">>),
     SuperOp(<<>>), SuperOp(<<<<"X">>>>),
     MemberOp(MemberRef(<<"X">>, <<"m">>, TPrim("Int"), FALSE)),
     ConstOp(CString(<<"X">>)), ConstOp(CClass(<<"X">>)),
     ConstOp(CI32(F32PosZero)), ConstOp(CI64(F64PosZero)),
     ConstOp(CF32(F32PosZero)), ConstOp(CF32(F32NegZero)),
     ConstOp(CF32(F32NaN)), ConstOp(CF64(F64PosZero)),
     ConstOp(CF64(F64NegZero))}

PoolApply(c, op) ==
    CASE op.f = "utf8" -> insert_utf8(c, op.s)
      [] op.f = "class" -> insert_class(c, op.s)
      [] op.f = "super" -> super_index(c, op.sup)
      [] op.f = "member" -> insert_member(c, op.m)
      [] op.f = "constant" -> insert_constant(c, op.c)

PoolHist == [log |-> <<>>, cmp |-> <<>>]

PoolInit ==
    /\ pc = "pool_ops"
    /\ cls = ClassIdle
    /\ writer = <<>> /\ cp = VecCpNew /\ buf = <<>> /\ buf2 = <<>>
    /\ bsm = <<>> /\ i = 0 /\ v = <<>> /\ ai = 0
    /\ io = IoBuilt
    /\ hist = PoolHist

\* one insert: the index returned, the slots after it and the entry in the
\* slot returned are logged
PoolInsert ==
    /\ pc = "pool_ops"
    /\ hist.cmp = <<>>
    /\ Len(hist.log) < MaxOps
    /\ \E op \in PoolOps :
       \E r \in {PoolApply(cp, op)} :
           /\ cp' = r.cp
           /\ hist' = [hist EXCEPT !.log = Append(@,
                          [op |-> op, idx |-> r.idx, len |-> Len(r.cp.entries),
                           e |-> IF r.idx = 0 THEN <<>> ELSE <<r.cp.entries[r.idx]>>])]
    /\ UNCHANGED <<ty, mh, utf, pc, cls, writer, buf, buf2, bsm, i, v, ai, io>>

\* cp.write_to(writer)
PoolSerialize ==
    /\ pc = "pool_ops"
    /\ hist.cmp = <<>>
    /\ writer' = cp_write_to(cp)
    /\ pc' = "serialized"
    /\ UNCHANGED <<ty, mh, utf, cls, cp, buf, buf2, bsm, i, v, ai, io, hist>>

\* a == b and the hashes of a and b, for two float constants
ConstCompare ==
    /\ pc = "pool_ops"
    /\ hist = PoolHist
    /\ \E a \in FloatConstants, b \in FloatConstants :
           hist' = [hist EXCEPT !.cmp = <<[a |-> a, b |-> b,
                                          eq |-> Constant_eq(a, b),
                                          hash_eq |-> Constant_hash(a) = Constant_hash(b)]>>]
    /\ pc' = "compared"
    /\ UNCHANGED <<ty, mh, utf, cls, writer, cp, buf, buf2, bsm, i, v, ai, io>>

(***************************************************************************)
(* Specifications: one per part of the codec; the other parts stay idle.   *)
(***************************************************************************)
TypeInit == TyInit /\ mh = MhIdle /\ utf = UtfIdle /\ PipeIdle

TypeNext == TyParse \/ TyEmit

SpecType == TypeInit /\ [][TypeNext]_vars

HandleInit == MhInit /\ ty = TyIdle /\ utf = UtfIdle /\ PipeIdle

HandleNext == MhRead \/ MhWrite

SpecHandle == HandleInit /\ [][HandleNext]_vars

UtfSpecInit == UtfInit /\ ty = TyIdle /\ mh = MhIdle /\ PipeIdle

UtfNext == UtfEncode \/ UtfDecodeBack \/ UtfDecode \/ UtfEncodeBack

SpecUtf == UtfSpecInit /\ [][UtfNext]_vars

PoolSpecInit == PoolInit /\ ty = TyIdle /\ mh = MhIdle /\ utf = UtfIdle

PoolNext == PoolInsert \/ PoolSerialize \/ ConstCompare

SpecPool == PoolSpecInit /\ [][PoolNext]_vars

Init == (PipeInitBuilt \/ PipeInitFile) /\ ty = TyIdle /\ mh = MhIdle /\ utf = UtfIdle

Next ==
    \/ ReadInput \/ ReadBack
    \/ WriteHeader \/ WriteEnvelope \/ WriteFields \/ WriteMethods
    \/ WriteAttrCount \/ WriteAttr \/ BsmSkip \/ BsmBegin
    \/ DrainTake \/ DrainWrite \/ BsmEmit \/ WritePool \/ WriteBody

Spec == Init /\ [][Next]_vars

\* write_to is straight-line code: once the drain loop is entered, each of
\* its steps is taken
SpecFair ==
    /\ Init /\ [][Next]_vars
    /\ WF_vars(BsmBegin) /\ WF_vars(DrainTake) /\ WF_vars(DrainWrite) /\ WF_vars(BsmEmit)

(***************************************************************************)
(* C1, C2: read, write, read again.                                        *)
(***************************************************************************)
\* C1: a class V read from a class file is written to bytes that read back
\* as a class equal to V.
C1_RoundTrip ==
    (io.src = "file" /\ io.rd.ok /\ io.round = 2) =>
        (io.rd2.ok /\ io.rd2.val = io.rd.val)

\* C2: what write_to produced is readable, and writing what was read back
\* gives the same bytes again.
C2_WriterFixedPoint ==
    /\ pc # "reread_failed"
    /\ (pc = "written" /\ io.round = 2) => writer = io.w1

(***************************************************************************)
(* C3: the header check.                                                   *)
(***************************************************************************)
\* C3: an input whose first four bytes are not CA FE BA BE fails with
\* BadMagic carrying the value found, with only those four bytes consumed.
C3_BadMagic ==
    (pc = "read_failed" /\ Len(io.input) >= 4 /\ SubSeq(io.input, 1, 4) # Magic) =>
        /\ io.rd.err = "BadMagic"
        /\ io.rd.found = SubSeq(io.input, 1, 4)
        /\ io.rd.pos = 5

(***************************************************************************)
(* C4: the layout of the output.                                           *)
(***************************************************************************)
\* the output is the magic, the version, the pool as it stands at the end,
\* then the body; the body opens with the flags, this, super, interfaces,
\* fields, methods and the attribute count; every index the body holds is
\* an entry of the pool in the output
C4_Layout ==
    pc = "written" =>
        LET E == cp_read_from(writer, 9)
            a == rd_u16(writer, E.pos)
            n == read_class_ref(E.val, writer, a.pos)
            s == read_super(E.val, writer, n.pos)
            t == read_vec(read_class_ref, E.val, writer, s.pos)
            f == read_vec(read_field, E.val, writer, t.pos)
            m == read_vec(read_method, E.val, writer, f.pos)
            x == rd_u16(writer, m.pos)
        IN  /\ SubSeq(writer, 1, 4) = Magic
            /\ RdU16(writer, 5) = cls.version.minor
            /\ RdU16(writer, 7) = cls.version.major
            /\ cls.version = Version52 =>
                  SubSeq(writer, 1, 8) = <<202, 254, 186, 190, 0, 0, 0, 52>>
            /\ E.ok /\ E.val = cp.entries
            /\ SubSeq(writer, E.pos, Len(writer)) = buf
            /\ a.ok /\ a.val = cls.access
            /\ n.ok /\ n.val = cls.name
            /\ s.ok /\ s.val = cls.super_name
            /\ t.ok /\ t.val = cls.interfaces
            /\ f.ok /\ f.val = cls.fields
            /\ m.ok /\ Len(m.val) = Len(cls.methods)
            /\ \A j \in 1..Len(m.val) :
                  /\ m.val[j].name = cls.methods[j].name
                  /\ Len(m.val[j].indys) = Len(cls.methods[j].indys)
            /\ x.ok /\ x.val = Len(cls.attributes)
            /\ hist.idxs \subseteq 1..Len(E.val)

\* once the pool has been written, nothing is inserted into it and nothing
\* is added to the body
C4_NoLateInsert ==
    (hist.poolWritten /\ hist'.poolWritten) => (cp' = cp /\ buf' = buf)

\* C4: the output is magic, version, pool, body in this order, the pool is
\* written only after the whole body has been serialized, and every index
\* of the body refers to an entry of the pool written.
C4_WriteOrder ==
    /\ []C4_Layout
    /\ [](hist.poolWritten => pc \in {"body", "written"})
    /\ [][C4_NoLateInsert]_vars

\* a version 52.0 class with call sites and a BootstrapMethods attribute
\* has been written
C4_Witness ==
    /\ pc = "written"
    /\ cls.version = Version52
    /\ bsm # <<>>
    /\ Len(cp.entries) > 8
    /\ Cardinality(hist.idxs) > 4

(***************************************************************************)
(* C5: BootstrapMethods goes last.                                         *)
(***************************************************************************)
\* C5: when the BootstrapMethods attribute is appended, the loop over the
\* class attributes is over and every other attribute has been written; it
\* stays the last attribute of the body.
C5_BootstrapMethodsLast ==
    \A j \in 1..Len(hist.attrLog) :
        hist.attrLog[j].k = "BootstrapMethods" =>
            /\ j = Len(hist.attrLog)
            /\ ai > Len(cls.attributes)
            /\ pc \in {"pool", "body", "written"}
            /\ j - 1 = Cardinality({m \in 1..Len(cls.attributes) :
                                       ~IsBsmAttr(cls.attributes[m])})
            /\ \A m \in 1..(j - 1) : hist.attrLog[m].at < hist.attrLog[j].at
            /\ hist.attrLog[j].at + 8 + Len(buf2) = Len(buf)

\* the BootstrapMethods attribute stands first in the list, another
\* attribute follows it, and it was written after that one
C5_Witness ==
    /\ pc = "written"
    /\ Len(cls.attributes) >= 2
    /\ IsBsmAttr(cls.attributes[1])
    /\ ~IsBsmAttr(cls.attributes[2])
    /\ Len(hist.attrLog) >= 2
    /\ hist.attrLog[Len(hist.attrLog)].k = "BootstrapMethods"

(***************************************************************************)
(* C6: the drain loop.                                                     *)
(***************************************************************************)
NoDup(xs) == \A j, m \in 1..Len(xs) : xs[j] = xs[m] => j = m

\* what has been written is what was taken, in order, nothing twice
C6_Progress ==
    /\ NoDup(hist.written)
    /\ Len(hist.written) <= Len(hist.taken)
    /\ hist.written = SubSeq(hist.taken, 1, Len(hist.written))

\* the loop has been left: nothing is pending, everything taken has been
\* written, and the count in the attribute is the number written
C6_Done ==
    (pc = "pool" /\ bsm # <<>>) =>
        /\ cp.bsm = <<>>
        /\ hist.written = hist.taken
        /\ i = Len(hist.written)
        /\ RdU16(buf, hist.attrLog[Len(hist.attrLog)].at + 7) = Len(hist.written)

\* C6: the drain loop ends with the pending list empty, every bootstrap
\* method taken written exactly once, and the count written equal to the
\* number of bootstrap methods written.
C6_DrainTerminates ==
    /\ []C6_Progress
    /\ []C6_Done
    /\ ((pc = "bsm_check" /\ bsm # <<>>) ~> (pc = "pool"))

\* the loop ran more than once: a bootstrap method whose argument is a
\* Dynamic constant brought in a further bootstrap method
C6_Witness ==
    /\ pc = "pool"
    /\ bsm # <<>>
    /\ Len(hist.written) >= 2
    /\ \E j \in 1..Len(hist.written) :
          /\ hist.written[j].arguments # <<>>
          /\ \E m \in (j + 1)..Len(hist.written) :
                hist.written[m] = hist.written[j].arguments[1].bsm

(***************************************************************************)
(* C7, C8: the constraints on a MethodHandle.                              *)
(***************************************************************************)
\* the kind, descriptor and name constraints on a method handle
KindConstraints(h) ==
    /\ h.kind \in FieldKinds => h.member.descriptor.k # "Method"
    /\ h.kind \in InvokeKinds \cup {"NewInvokeSpecial"} => h.member.descriptor.k = "Method"
    /\ h.kind = "NewInvokeSpecial" => h.member.name = NameInit
    /\ h.kind \in InvokeKinds => h.member.name \notin {NameInit, NameClinit}

\* C7: a handle accepted on read satisfies the constraints, and one that
\* violates them is rejected with Invalid.
C7_ReadConstraints ==
    (mh.pc = "done" /\ mh.op = "read") =>
        /\ mh.res.ok => KindConstraints(mh.h)
        /\ ~KindConstraints(mh.h) => mh.res = RErr("Invalid")

\* C8: a handle written with success satisfies the constraints, and one
\* that violates them makes write_to return Invalid.
C8_WriteConstraints ==
    (mh.pc = "done" /\ mh.op = "write") =>
        /\ mh.res.ok => KindConstraints(mh.h)
        /\ ~KindConstraints(mh.h) => mh.res = RErr("Invalid")

(***************************************************************************)
(* C9, C10: descriptors.                                                   *)
(***************************************************************************)
RECURSIVE Descriptor(_)
\* the string of a type in the descriptor grammar
Descriptor(t) ==
    CASE t.k = "Ref" -> <<"L">> \o t.name \o <<";">>
      [] t.k = "ArrayRef" -> Repeat("[", t.dim) \o Descriptor(t.elem)
      [] t.k = "Method" ->
           <<"(">> \o Concat([j \in 1..Len(t.params) |-> Descriptor(t.params[j])])
              \o <<")">> \o (IF t.ret = <<>> THEN <<"V">> ELSE Descriptor(t.ret[1]))
      [] OTHER -> <<CharOf(t.k)>>

GrammarBase == {TPrim("Int"), TPrim("Double"), TRef(<<"a">>)}

GrammarFields == GrammarBase \cup {TArrayRef(1, t) : t \in GrammarBase}

TypeMethodExample ==
    TMethod(<<TPrim("Int"), TPrim("Long"), TRef(NameString)>>, <<TArrayRef(1, TPrim("Double"))>>)

GrammarTypes ==
    GrammarFields
        \cup {TMethod(ps, r) : ps \in SeqsUpTo(GrammarFields, 1),
                               r \in {<<>>} \cup {<<t>> : t \in GrammarFields}}
        \cup {TypeMethodExample, TRef(NameObject)}

GrammarPairs == {<<Descriptor(t), t>> : t \in GrammarTypes}

\* C9: a string of the descriptor grammar parses to the type it denotes,
\* and that type is emitted as the same string.
C9_DescriptorRoundTrip ==
    \A p \in GrammarPairs :
        (ty.input = p[1] /\ ty.pc # "parse") =>
            /\ ty.res.ok /\ ty.res.t = p[2]
            /\ ty.pc = "emitted" => ty.emitted = ty.input

\* the type a non-array field descriptor denotes
ElemTypeOf(e) ==
    IF e[1] = "L" THEN TRef(SubSeq(e, 2, Len(e) - 1)) ELSE TPrim(PrimOf(e[1]))

RECURSIVE ArraysWellFormed(_)
\* no ArrayRef has dimension 0 or an ArrayRef as its element
ArraysWellFormed(t) ==
    CASE t.k = "ArrayRef" ->
           t.dim >= 1 /\ t.elem.k # "ArrayRef" /\ ArraysWellFormed(t.elem)
      [] t.k = "Method" ->
           /\ \A j \in 1..Len(t.params) : ArraysWellFormed(t.params[j])
           /\ t.ret # <<>> => ArraysWellFormed(t.ret[1])
      [] OTHER -> TRUE

\* C10: k '[' before a non-array field type parse to ArrayRef(k, element)
\* for k up to 255 and fail with ArithmeticOverflow from 256 on; no
\* ArrayRef returned has dimension 0 or an ArrayRef element.
C10_ArrayDimensions ==
    /\ \A k \in DimCases, e \in ElemCases :
          (ty.input = Repeat("[", k) \o e /\ ty.pc # "parse") =>
              IF k <= U8Max
              THEN ty.res.ok /\ ty.res.t = TArrayRef(k, ElemTypeOf(e))
              ELSE ~ty.res.ok /\ ty.res.err = "ArithmeticOverflow"
    /\ (ty.pc # "parse" /\ ty.res.ok) => ArraysWellFormed(ty.res.t)

(***************************************************************************)
(* C11: no Method inside an ArrayRef or a Method.                          *)
(***************************************************************************)
RECURSIVE NoNestedMethod(_)
\* no ArrayRef has a Method as its element, no Method has a Method among
\* its parameters or as its return type
NoNestedMethod(t) ==
    CASE t.k = "ArrayRef" -> t.elem.k # "Method" /\ NoNestedMethod(t.elem)
      [] t.k = "Method" ->
           /\ \A j \in 1..Len(t.params) :
                 t.params[j].k # "Method" /\ NoNestedMethod(t.params[j])
           /\ t.ret # <<>> => (t.ret[1].k # "Method" /\ NoNestedMethod(t.ret[1]))
      [] OTHER -> TRUE

\* C11: a Type that from_str returns holds no Method as the element of an
\* ArrayRef, as a parameter or as the return type of a Method.
C11_NoNestedMethod ==
    (ty.pc # "parse" /\ ty.res.ok) => NoNestedMethod(ty.res.t)

(***************************************************************************)
(* C20: the language the parser accepts.                                   *)
(***************************************************************************)
RECURSIVE FieldEnd(_, _)
\* the position after the field descriptor of the grammar that starts at
\* pos, 0 when none starts there
FieldEnd(s, pos) ==
    IF pos > Len(s) THEN 0
    ELSE CASE s[pos] \in PrimChars -> pos + 1
           [] s[pos] = "L" ->
                IF \E j \in (pos + 1)..Len(s) : s[j] = ";"
                THEN 1 + CHOOSE j \in (pos + 1)..Len(s) :
                            s[j] = ";" /\ \A m \in (pos + 1)..(j - 1) : s[m] # ";"
                ELSE 0
           [] s[pos] = "[" ->
                IF BracketRun(s, pos) > U8Max
                   \/ PeekOrParen(s, pos + BracketRun(s, pos)) = "("
                THEN 0
                ELSE FieldEnd(s, pos + BracketRun(s, pos))
           [] OTHER -> 0

RECURSIVE ParamsEnd(_, _)
\* the position of the ')' that closes the parameter list field* that
\* starts at pos, 0 when there is none
ParamsEnd(s, pos) ==
    IF pos > Len(s) THEN 0
    ELSE IF s[pos] = ")" THEN pos
    ELSE IF FieldEnd(s, pos) = 0 THEN 0
    ELSE ParamsEnd(s, FieldEnd(s, pos))

\* descriptor := field | method, the whole of s
IsDescriptor(s) ==
    \/ FieldEnd(s, 1) = Len(s) + 1
    \/ /\ Len(s) >= 1
       /\ s[1] = "("
       /\ ParamsEnd(s, 2) # 0
       /\ \/ ParamsEnd(s, 2) + 1 = Len(s) /\ s[Len(s)] = "V"
          \/ FieldEnd(s, ParamsEnd(s, 2) + 1) = Len(s) + 1

\* C20: from_str returns Ok only for a string that is, as a whole, one
\* field or method descriptor of the grammar.
C20_OnlyDescriptors ==
    (ty.pc # "parse" /\ ty.res.ok) => IsDescriptor(ty.input)

(***************************************************************************)
(* C17: reading access flags.                                              *)
(***************************************************************************)
\* C17: reading a class file ends by returning Ok or Err, whatever bits its
\* access_flags word holds; it does not panic.
C17_FlagsNoPanic ==
    (io.src = "file" /\ pc # "read") => (io.rd.ok \/ io.rd.err # "panic")

(***************************************************************************)
(* C12, C13: the writer pool.                                              *)
(***************************************************************************)
\* the class name an insert interns as a Class entry, <<>> when it interns
\* none by name
ClassNameOf(op) ==
    CASE op.f = "class" -> <<op.s>>
      [] op.f = "super" -> op.sup
      [] op.f = "constant" /\ op.c.k = "Class" -> <<op.c.s>>
      [] OTHER -> <<>>

\* two inserts of semantically equal entries
SameEntry(o1, o2) ==
    \/ ClassNameOf(o1) # <<>> /\ ClassNameOf(o1) = ClassNameOf(o2)
    \/ /\ o1.f = o2.f
       /\ CASE o1.f = "utf8" -> o1.s = o2.s
            [] o1.f = "member" -> o1.m = o2.m
            [] o1.f = "constant" -> o1.c.k = o2.c.k /\ o1.c = o2.c
            [] OTHER -> FALSE

\* C12: once an insert has returned an index for an entry, a later insert
\* of an equal entry returns that index and adds no slot, and the slot of
\* every index returned keeps its entry; the same class name inserted three
\* times into an empty pool leaves one index and two slots.
C12_DedupStable ==
    pc \in {"pool_ops", "serialized"} =>
        /\ \A j \in 1..Len(hist.log) :
              hist.log[j].idx # 0 => cp.entries[hist.log[j].idx] = hist.log[j].e[1]
        /\ \A j \in 1..Len(hist.log) : \A m \in (j + 1)..Len(hist.log) :
              SameEntry(hist.log[j].op, hist.log[m].op) =>
                  /\ hist.log[m].idx = hist.log[j].idx
                  /\ hist.log[m].len = hist.log[m - 1].len
        /\ \A n \in {<<"X">>, <<"Y">>} :
              (Len(hist.log) = 3 /\ \A j \in 1..3 : hist.log[j].op = ClassOp(n)) =>
                  /\ Len(cp.entries) = 2
                  /\ cp.entries[1].tag = "Utf8" /\ cp.entries[2].tag = "Class"
                  /\ \A j \in 1..3 : hist.log[j].idx = 2

\* the class name X inserted, another entry inserted, X inserted again
C12_Witness ==
    /\ pc = "pool_ops"
    /\ Len(hist.log) = 3
    /\ hist.log[1].op = ClassOp(<<"X">>)
    /\ hist.log[2].op = ConstOp(CI64(F64PosZero))
    /\ hist.log[3].op = ClassOp(<<"X">>)
    /\ hist.log[3].idx = hist.log[1].idx
    /\ Len(cp.entries) = 4

\* the slots a vector of entries takes: one per entry, two per Long or Double
RECURSIVE SlotCount(_)
SlotCount(es) ==
    IF es = <<>> THEN 0
    ELSE IF es[1] = Phantom THEN SlotCount(Tail(es))
    ELSE (IF IsWide(es[1]) THEN 2 ELSE 1) + SlotCount(Tail(es))

\* C13: no insert returns index 0, so the super-class index is 0 exactly
\* for None; a Long or a Double takes two consecutive slots and only the
\* first is returned; the count serialized is the number of slots plus one.
C13_SlotInvariant ==
    pc \in {"pool_ops", "serialized"} =>
        /\ \A j \in 1..Len(hist.log) :
              IF hist.log[j].op.f = "super"
              THEN hist.log[j].idx = 0 <=> hist.log[j].op.sup = <<>>
              ELSE hist.log[j].idx >= 1
        /\ \A j \in 1..Len(hist.log) :
              hist.log[j].idx # 0 =>
                  /\ hist.log[j].idx <= Len(cp.entries)
                  /\ cp.entries[hist.log[j].idx] # Phantom
        /\ \A x \in 1..Len(cp.entries) :
              /\ IsWide(cp.entries[x]) =>
                     x + 1 <= Len(cp.entries) /\ cp.entries[x + 1] = Phantom
              /\ cp.entries[x] = Phantom => x > 1 /\ IsWide(cp.entries[x - 1])
        /\ Len(cp.entries) = SlotCount(cp.entries)
        /\ pc = "serialized" =>
              /\ RdU16(writer, 1) = SlotCount(cp.entries) + 1
              /\ Len(writer) = 2 + Len(Concat([x \in 1..Len(cp.entries) |->
                                                 EntryBytes(cp.entries[x])]))

\* a pool holding a Long, a Double and a Class after it, serialized, with
\* both super-class cases logged
C13_Witness ==
    /\ pc = "serialized"
    /\ Len(hist.log) = 3
    /\ hist.log[1].op = ConstOp(CI64(F64PosZero))
    /\ hist.log[2].op = SuperOp(<<>>)
    /\ hist.log[3].op = SuperOp(<<<<"X">>>>)
    /\ hist.log[3].idx = 4
    /\ RdU16(writer, 1) = 5

(***************************************************************************)
(* C14: float constants.                                                   *)
(***************************************************************************)
\* C14: two float constants are equal exactly when their bit patterns are,
\* and equal constants hash alike; in a pool, two float constants get one
\* index exactly when their bit patterns are equal.
C14_FloatBits ==
    /\ (pc = "compared" /\ hist.cmp[1].a.k = hist.cmp[1].b.k) =>
          /\ hist.cmp[1].eq <=> hist.cmp[1].a.bits = hist.cmp[1].b.bits
          /\ hist.cmp[1].eq => hist.cmp[1].hash_eq
    /\ pc \in {"pool_ops", "serialized"} =>
          \A j \in 1..Len(hist.log) : \A m \in (j + 1)..Len(hist.log) :
              ( /\ hist.log[j].op.f = "constant" /\ hist.log[m].op.f = "constant"
                /\ hist.log[j].op.c.k \in {"F32", "F64"}
                /\ hist.log[m].op.c.k = hist.log[j].op.c.k ) =>
                  (hist.log[j].idx = hist.log[m].idx
                      <=> hist.log[j].op.c.bits = hist.log[m].op.c.bits)

(***************************************************************************)
(* C18, C19: the class attributes in the output.                           *)
(***************************************************************************)
\* the u16 attribute count in the class body
AttrCountWritten == RdU16(buf, hist.countAt + 1)

\* C18: the attribute count written equals the number of attribute
\* structures written after it.
C18_AttrCount ==
    pc \in {"pool", "body", "written"} => AttrCountWritten = Len(hist.attrLog)

\* the entry count of the BootstrapMethods attribute logged as e: it follows
\* the name index and the length
BsmCountWritten(e) == RdU16(buf, e.at + 7)

\* C19: when write_to has returned, no bootstrap method is left pending in
\* the pool, and every bootstrap index handed out is below the entry count
\* of a BootstrapMethods attribute of the output.
C19_BootstrapEmitted ==
    pc = "written" =>
        /\ cp.bsm = <<>>
        /\ cp.bsmAll # <<>> =>
              \E j \in 1..Len(hist.attrLog) :
                  /\ hist.attrLog[j].k = "BootstrapMethods"
                  /\ Len(cp.bsmAll) <= BsmCountWritten(hist.attrLog[j])

(***************************************************************************)
(* C15, C16: modified UTF-8.                                               *)
(***************************************************************************)
\* the bytes the table gives a code point
TableLen(c) ==
    IF c = 0 THEN 2 ELSE IF c <= 127 THEN 1 ELSE IF c <= 2047 THEN 2
    ELSE IF c <= 65535 THEN 3 ELSE 6

RECURSIVE TableLenAll(_)
TableLenAll(str) == IF str = <<>> THEN 0 ELSE TableLen(Head(str)) + TableLenAll(Tail(str))

\* b is the encoding the table gives the code point c
TableForm(c, b) ==
    /\ Len(b) = TableLen(c)
    /\ c = 0 => b = <<192, 128>>
    /\ (c >= 1 /\ c <= 127) => b = <<c>>
    /\ (c >= 128 /\ c <= 2047) =>
          /\ b[1] >= 192 /\ b[1] <= 223 /\ IsCont(b, 2)
          /\ (b[1] - 192) * 64 + (b[2] - 128) = c
    /\ (c >= 2048 /\ c <= 65535) => (IsThree(b, 1) /\ ThreeValue(b, 1) = c)
    /\ c >= 65536 =>
          /\ IsThree(b, 1) /\ IsThree(b, 4)
          /\ ThreeValue(b, 1) >= 55296 /\ ThreeValue(b, 1) <= 56319
          /\ ThreeValue(b, 4) >= 56320 /\ ThreeValue(b, 4) <= 57343
          /\ 65536 + (ThreeValue(b, 1) - 55296) * 1024 + (ThreeValue(b, 4) - 56320) = c

\* C15: string_to_modified_utf8 encodes each code point by the table: C0 80
\* for U+0000, one, two and three bytes up to U+FFFF, six bytes (a
\* surrogate pair) above; no byte 00 and no four-byte form in the output.
C15_EncodeTable ==
    utf.pc \in {"encoded", "round_trip"} =>
        /\ Len(utf.b) = TableLenAll(utf.s)
        /\ \A j \in 1..Len(utf.b) : utf.b[j] # 0 /\ utf.b[j] < 240
        /\ Len(utf.s) = 1 => TableForm(utf.s[1], utf.b)
        /\ Len(utf.s) = 2 =>
              /\ TableForm(utf.s[1], SubSeq(utf.b, 1, TableLen(utf.s[1])))
              /\ TableForm(utf.s[2], SubSeq(utf.b, TableLen(utf.s[1]) + 1, Len(utf.b)))
        /\ utf.s = <<128512>> => utf.b = <<237, 160, 189, 237, 184, 128>>
        /\ utf.s = <<65332>> => utf.b = <<239, 188, 180>>
        /\ utf.s = <<937>> => utf.b = <<206, 169>>
        /\ utf.s = <<0>> => utf.b = <<192, 128>>
        /\ utf.s = TextAbcde => utf.b = TextAbcde

\* U+0000 and U+1F600 encoded: two bytes and six
C15_Witness ==
    /\ utf.pc = "encoded"
    /\ utf.s = <<0, 128512>>
    /\ utf.b = <<192, 128, 237, 160, 189, 237, 184, 128>>

\* C16: decoding what was encoded gives the text back, and encoding what
\* was decoded gives the bytes back.
C16_Utf8RoundTrip ==
    /\ utf.pc = "round_trip" => (utf.res.ok /\ utf.res.val = utf.s)
    /\ utf.pc = "re_encoded" => utf.b2 = utf.b

\* the surrogate pair of U+1F600 decoded and encoded again
C16_Witness ==
    /\ utf.pc = "re_encoded"
    /\ utf.b = <<237, 160, 189, 237, 184, 128>>
    /\ utf.res.val = <<128512>>
    /\ utf.b2 = utf.b


====
